---- MODULE Spec2Model ----
(***************************************************************************)
(* Model of the AppForge SDK backend: the item store with its per-         *)
(* collection access settings (services/data.service.ts), the auth         *)
(* middleware (middleware/auth.ts) in front of the v2 routes, and the      *)
(* in-memory rate limiter (middleware/rate-limit.ts).                      *)
(*                                                                         *)
(* Every handler of the data service is a pure operator from the database  *)
(* and the call's arguments to an outcome [db, status, rows]; the actions   *)
(* apply these operators.  A property of a handler is stated for every call *)
(* in every reachable database.  A behaviour draws its calls from one      *)
(* scope (a family of inputs), chosen when it starts.                      *)
(***************************************************************************)
EXTENDS Integers, Sequences, FiniteSets, TLC

\* ---------------------------------------------------------------- bounds
MaxItems == 2          \* item rows ever inserted in one behaviour

\* ------------------------------------------------------------ value sets
Null == "null"         \* JavaScript undefined / null, SQL NULL

Apps == {"a1", "a2"}
CollectionNames == {"notes", "tasks"}
Users == {"u1", "u2"}
Roles == {"admin", "editor", "user", "guest"}

\* What the routes pass as (userId, userRole): req.auth?.userId, req.auth?.role
Anonymous == [userId |-> Null, userRole |-> Null]
Callers ==
  {Anonymous,
   [userId |-> "u1", userRole |-> "user"],
   [userId |-> "u2", userRole |-> "user"],
   [userId |-> "u2", userRole |-> "editor"],
   [userId |-> "u1", userRole |-> "admin"]}

\* CollectionInfo.settings as the set of its flags that are true; a null
\* settings column reads as {} through `collection.settings || {}`.
SettingsFlags == {"ownerReadOnly", "ownerWriteOnly", "publicRead", "adminWriteOnly"}
SettingsChoices == {{"ownerReadOnly"}, {"ownerWriteOnly"}, {"adminWriteOnly"}}

\* Field definitions (fieldDefSchema): relation is the target collection's
\* name, or Null.
TitleField == [name |-> "title", type |-> "text", required |-> TRUE, relation |-> Null]
RefField == [name |-> "ref", type |-> "text", required |-> FALSE, relation |-> "tasks"]
StatusField == [name |-> "status", type |-> "text", required |-> TRUE, relation |-> Null]
SchemaChoices == {<<>>, <<TitleField, RefField>>}

\* Payloads: JSON objects as functions from keys to string values.
CreatePayloads == {[title |-> "X"], [title |-> "X", ref |-> "1"], [status |-> "done"]}
UpdatePayloads == {[status |-> "done"], [title |-> ""]}

ItemIds == 1 .. (MaxItems + 1)

\* ------------------------------------------------------------- variables
VARIABLES
  db,        \* the two tables and the id sequences of the storage engine
  scope,     \* the inputs the callers of this behaviour draw from
  procs,     \* concurrent calls of the data service: where each stands between its awaits
  req,       \* the HTTP request in the middleware chain
  buckets,   \* the rate limiter's Map from key to RateBucket
  now,       \* Date.now(), in ms
  ticks,     \* how often the clock has advanced
  sweepAt,   \* the earliest time the eviction timer fires next
  rlLast,    \* what the limiter answered last
  epoch,     \* per key: when its first request came, and how many came since
  admitted,  \* the admitted requests of the last window: time and route class
  check,     \* a call of the schema validator: its arguments and its answer
  idb,       \* the identity tables: app_end_users and the apps' end_user_count
  calls,     \* the auth service's calls: where each stands between its awaits
  clock      \* Date.now() of the auth service, in ms

vars == <<db, scope, procs, req, buckets, now, ticks, sweepAt, rlLast, epoch, admitted, check,
          idb, calls, clock>>
storeVars == <<db, scope>>
raceVars == <<procs>>
authVars == <<req>>
rlVars == <<buckets, now, ticks, sweepAt, rlLast, epoch, admitted>>
valVars == <<check>>
idVars == <<idb, calls, clock>>

\* ----------------------------------------------------------- JSON helpers
\* data[key], undefined when the key is absent
Get(data, key) == IF key \in DOMAIN data THEN data[key] ELSE Null

\* { ...a, ...b }: b's keys overwrite a's
Spread(a, b) == [k \in (DOMAIN a) \cup (DOMAIN b) |-> IF k \in DOMAIN b THEN b[k] ELSE a[k]]

\* ------------------------------------------------------ schema validation
\* JSON values are written as strings: a JSON string as itself, a number and
\* a boolean with a leading "#"; Null is undefined and null alike.
NumberValue == ("#-1" :> (0 - 1)) @@ ("#0" :> 0) @@ ("#1" :> 1)
Numbers == DOMAIN NumberValue
Booleans == {"#true", "#false"}

\* typeof value
TypeOf(value) ==
  IF value \in Numbers THEN "number"
  ELSE IF value \in Booleans THEN "boolean"
  ELSE "string"

\* the modelled strings that Date.parse, z.string().email() and
\* z.string().url() accept
DateStrings == {"2024-01-01"}
EmailStrings == {"a@b.co"}
UrlStrings == {"http://a.b"}

\* an optional key of a field definition is given
Has(field, key) == key \in DOMAIN field

\* the truth value JavaScript gives a number in `field.minLength && ...`
Truthy(n) == n # 0

Error(field, what) == {<<field.name, what>>}

\* the switch on field.type, lines 186-218
TypeErrors(value, field) ==
  CASE field.type = "text" ->
         IF TypeOf(value) # "string" THEN Error(field, "must be text")
         ELSE (IF Has(field, "minLength") /\ Truthy(field.minLength)
                  /\ Len(value) < field.minLength
               THEN Error(field, "must be at least minLength characters") ELSE {})
              \cup
              (IF Has(field, "maxLength") /\ Truthy(field.maxLength)
                  /\ Len(value) > field.maxLength
               THEN Error(field, "must be at most maxLength characters") ELSE {})
    [] field.type = "number" ->
         IF TypeOf(value) # "number" THEN Error(field, "must be a number")
         ELSE (IF Has(field, "min") /\ NumberValue[value] < field.min
               THEN Error(field, "must be at least min") ELSE {})
              \cup
              (IF Has(field, "max") /\ NumberValue[value] > field.max
               THEN Error(field, "must be at most max") ELSE {})
    [] field.type = "boolean" ->
         IF TypeOf(value) # "boolean" THEN Error(field, "must be true/false") ELSE {}
    [] field.type = "date" ->
         IF TypeOf(value) # "string" \/ value \notin DateStrings
         THEN Error(field, "must be a valid date") ELSE {}
    [] field.type = "email" ->
         IF TypeOf(value) # "string" \/ value \notin EmailStrings
         THEN Error(field, "must be a valid email") ELSE {}
    [] field.type = "url" ->
         IF TypeOf(value) # "string" \/ value \notin UrlStrings
         THEN Error(field, "must be a valid URL") ELSE {}
    [] field.type = "enum" ->
         IF Has(field, "enum_values") /\ value \notin field.enum_values
         THEN Error(field, "must be one of enum_values") ELSE {}
    [] field.type = "json" -> {}

\* the loop body without the required check of line 179
FieldErrors_NoRequired(data, field) ==
  LET value == Get(data, field.name) IN
  IF value = Null THEN {} ELSE TypeErrors(value, field)

FieldErrors(data, field) ==
  LET value == Get(data, field.name) IN
  IF field.required /\ (value = Null \/ value = "")
  THEN Error(field, "is required")
  ELSE IF value = Null THEN {}
  ELSE TypeErrors(value, field)

RECURSIVE validateDataAgainstSchema(_, _)
validateDataAgainstSchema(data, schema) ==
  IF schema = <<>> THEN {}
  ELSE FieldErrors(data, Head(schema)) \cup validateDataAgainstSchema(data, Tail(schema))

\* -------------------------------------------------- collection management
FindCollection(d, appId, name) ==
  {c \in d.app_collections : c.app_id = appId /\ c.name = name}

\* insert into app_collections; (app_id, name) is unique in the table
\* (provisioning.ts upserts on that constraint), so a second row is an error.
InsertCollection(d, appId, name) ==
  IF \E c \in d.app_collections : c.app_id = appId /\ c.name = name
  THEN [error |-> TRUE, db |-> d, rows |-> {}]
  ELSE LET row == [id |-> d.nextCollectionId, app_id |-> appId, name |-> name,
                   schema |-> <<>>, settings |-> {}]
       IN [error |-> FALSE,
           db |-> [d EXCEPT !.app_collections = @ \cup {row}, !.nextCollectionId = @ + 1],
           rows |-> {row}]

\* select ... .single() gives the row only when exactly one row matches
getOrCreateCollection(d, appId, name) ==
  LET existing == FindCollection(d, appId, name) IN
  IF Cardinality(existing) = 1
  THEN [error |-> FALSE, db |-> d, rows |-> existing]
  ELSE InsertCollection(d, appId, name)

TheRow(rows) == CHOOSE r \in rows : TRUE

listCollections(d, appId) == {c \in d.app_collections : c.app_id = appId}

\* --------------------------------------------------------- CRUD operations
Settings(collection) == collection.settings      \* collection.settings || {}

Privileged(userRole) == userRole = "admin" \/ userRole = "editor"

\* created_at grows with the insertion sequence, which also numbers the ids
RECURSIVE Ascending(_)
Ascending(rows) ==
  IF rows = {} THEN <<>>
  ELSE LET first == CHOOSE r \in rows : \A o \in rows : r.id <= o.id
       IN <<first>> \o Ascending(rows \ {first})

RECURSIVE Reverse(_)
Reverse(s) == IF s = <<>> THEN <<>> ELSE Reverse(Tail(s)) \o <<Head(s)>>

Min(a, b) == IF a <= b THEN a ELSE b

\* query.range(offset, offset + limit - 1)
Range(s, offset, limit) == SubSeq(s, offset + 1, Min(Len(s), offset + limit))

SeqRows(s) == {s[n] : n \in 1 .. Len(s)}

\* listItems, line 92: ownerReadOnly turns ownOnly on for every caller who is
\* neither admin nor editor (the routes never pass ownOnly themselves)
ListOwnOnly(settings, opts) ==
  "ownerReadOnly" \in settings /\ ~Privileged(opts.userRole)

\* listItems, line 104: the ownership filter needs ownOnly and a userId
ListOwnerFilter(settings, opts) == ListOwnOnly(settings, opts) /\ opts.userId # Null

\* the query of lines 96-113 without .eq('is_archived', false)
ListQuery_WithArchived(d, collection, appId, opts) ==
  {i \in d.app_collection_items :
     /\ i.collection_id = collection.id
     /\ i.app_id = appId
     /\ (ListOwnerFilter(Settings(collection), opts) => i.end_user_id = opts.userId)
     /\ \A k \in DOMAIN opts.filters : Get(i.data, k) = opts.filters[k]}

ListQuery(d, collection, appId, opts) ==
  {i \in d.app_collection_items :
     /\ i.collection_id = collection.id
     /\ i.app_id = appId
     /\ ~i.is_archived
     /\ (ListOwnerFilter(Settings(collection), opts) => i.end_user_id = opts.userId)
     /\ \A k \in DOMAIN opts.filters : Get(i.data, k) = opts.filters[k]}

listItems(d, appId, collectionName, opts) ==
  LET g == getOrCreateCollection(d, appId, collectionName) IN
  IF g.error THEN [db |-> g.db, status |-> 500, rows |-> {}, total |-> 0, hasMore |-> FALSE]
  ELSE LET matched == ListQuery(g.db, TheRow(g.rows), appId, opts)
           sorted == IF opts.order = "asc" THEN Ascending(matched) ELSE Reverse(Ascending(matched))
           page == Range(sorted, opts.offset, opts.limit)
       IN [db |-> g.db, status |-> 200, rows |-> SeqRows(page),
           total |-> Cardinality(matched),
           hasMore |-> (opts.offset + opts.limit) < Cardinality(matched)]

\* getItem, line 158: the ownership filter of a single read
GetOwnerFilter_WriteFlag(settings, userId, userRole) ==
  "ownerWriteOnly" \in settings /\ ~Privileged(userRole) /\ userId # Null

GetOwnerFilter(settings, userId, userRole) ==
  "ownerReadOnly" \in settings /\ ~Privileged(userRole) /\ userId # Null

\* getItem, lines 150-160: the rows the query can return
GetQuery(d, collection, appId, itemId, userId, userRole) ==
  {i \in d.app_collection_items :
     /\ i.id = itemId
     /\ i.app_id = appId
     /\ (GetOwnerFilter(Settings(collection), userId, userRole) => i.end_user_id = userId)}

\* the object the read functions return for a row:
\* { id: item.id, ...item.data, _meta: { owner_id: item.end_user_id, ... } }
ItemView(item) ==
  Spread(Spread("id" :> ToString(item.id), item.data),
         "_meta" :> [owner_id |-> item.end_user_id])

getItem(d, appId, collectionName, itemId, userId, userRole) ==
  LET g == getOrCreateCollection(d, appId, collectionName) IN
  IF g.error THEN [db |-> g.db, status |-> 500, rows |-> {}, item |-> <<>>]
  ELSE LET found == GetQuery(g.db, TheRow(g.rows), appId, itemId, userId, userRole) IN
       IF Cardinality(found) # 1
       THEN [db |-> g.db, status |-> 404, rows |-> {}, item |-> <<>>]
       ELSE [db |-> g.db, status |-> 200, rows |-> found,
             item |-> ItemView(TheRow(found))]

\* ---------------------------------------------------- relation resolution
\* The fields of the schema are visited in order; each relation field with a
\* truthy value resolves (and auto-creates) its target collection and looks
\* the referenced id up in it.  The first missing referent throws.
\* `resolved[field.name]` in a condition: undefined, null, '', 0 and false
Falsy(value) == value \in {Null, "", "#0", "#false"}

RECURSIVE ResolveFields(_, _, _, _)
ResolveFields(d, appId, fields, data) ==
  IF fields = <<>> THEN [db |-> d, status |-> 200, missing |-> <<>>]
  ELSE LET field == Head(fields)
           value == Get(data, field.name)
       IN IF field.relation = Null \/ Falsy(value)
          THEN ResolveFields(d, appId, Tail(fields), data)
          ELSE LET g == getOrCreateCollection(d, appId, field.relation) IN
               IF g.error THEN [db |-> g.db, status |-> 500, missing |-> <<>>]
               ELSE IF \E i \in g.db.app_collection_items :
                         ToString(i.id) = value /\ i.collection_id = TheRow(g.rows).id
                    THEN ResolveFields(g.db, appId, Tail(fields), data)
                    ELSE [db |-> g.db, status |-> 400,
                          missing |-> <<field.relation, value>>]

\* missing: the collection/refId that the error message names
resolveRelations_Unchecked(d, appId, collection, data) ==
  [db |-> d, status |-> 200, missing |-> <<>>]

resolveRelations(d, appId, collection, data) ==
  ResolveFields(d, appId, collection.schema, data)

\* -------------------------------------------------------------- writes
\* createItem line 188, updateItem line 238
AdminWriteDenied(settings, userRole) ==
  "adminWriteOnly" \in settings /\ userRole # "admin"

\* an insert that leaves end_user_id out
createItemIn_Unowned(d, appId, collection, data, userId, userRole) ==
  IF AdminWriteDenied(Settings(collection), userRole)
  THEN [db |-> d, status |-> 403, rows |-> {}, missing |-> <<>>]
  ELSE IF validateDataAgainstSchema(data, collection.schema) # {}
  THEN [db |-> d, status |-> 400, rows |-> {}, missing |-> <<>>]
  ELSE LET r == resolveRelations(d, appId, collection, data) IN
    IF r.status # 200
    THEN [db |-> r.db, status |-> r.status, rows |-> {}, missing |-> r.missing]
    ELSE LET item == [id |-> r.db.nextItemId, collection_id |-> collection.id,
                      app_id |-> appId, end_user_id |-> Null,
                      data |-> data, is_archived |-> FALSE]
         IN [db |-> [r.db EXCEPT !.app_collection_items = @ \cup {item},
                                 !.nextItemId = @ + 1],
             status |-> 201, rows |-> {item}, missing |-> <<>>]

\* createItem after its getOrCreateCollection (lines 186-223)
createItemIn(d, appId, collection, data, userId, userRole) ==
  IF AdminWriteDenied(Settings(collection), userRole)
  THEN [db |-> d, status |-> 403, rows |-> {}, missing |-> <<>>]
  ELSE IF validateDataAgainstSchema(data, collection.schema) # {}
  THEN [db |-> d, status |-> 400, rows |-> {}, missing |-> <<>>]
  ELSE LET r == resolveRelations(d, appId, collection, data) IN
    IF r.status # 200
    THEN [db |-> r.db, status |-> r.status, rows |-> {}, missing |-> r.missing]
    ELSE LET item == [id |-> r.db.nextItemId, collection_id |-> collection.id,
                      app_id |-> appId, end_user_id |-> userId,
                      data |-> data, is_archived |-> FALSE]
         IN [db |-> [r.db EXCEPT !.app_collection_items = @ \cup {item},
                                 !.nextItemId = @ + 1],
             status |-> 201, rows |-> {item}, missing |-> <<>>]

createItem(d, appId, collectionName, data, userId, userRole) ==
  LET g == getOrCreateCollection(d, appId, collectionName) IN
  IF g.error THEN [db |-> g.db, status |-> 500, rows |-> {}, missing |-> <<>>]
  ELSE createItemIn(g.db, appId, TheRow(g.rows), data, userId, userRole)

\* updateItem, line 250: the ownership filter of the fetch before the merge
UpdateOwnerFilter(settings, userId, userRole) ==
  "ownerWriteOnly" \in settings /\ ~Privileged(userRole) /\ userId # Null

\* updateItem, lines 243-254
UpdateExistingQuery(d, collection, appId, itemId, userId, userRole) ==
  {i \in d.app_collection_items :
     /\ i.id = itemId
     /\ i.app_id = appId
     /\ (UpdateOwnerFilter(Settings(collection), userId, userRole) => i.end_user_id = userId)}

\* updateItem, line 262: what is handed to the validator
ValidatedOnUpdate_Delta(merged, data) == data

ValidatedOnUpdate(merged, data) == merged

updateItem(d, appId, collectionName, itemId, data, userId, userRole) ==
  LET g == getOrCreateCollection(d, appId, collectionName) IN
  IF g.error THEN [db |-> g.db, status |-> 500, rows |-> {}]
  ELSE LET collection == TheRow(g.rows) IN
    IF AdminWriteDenied(Settings(collection), userRole)
    THEN [db |-> g.db, status |-> 403, rows |-> {}]
    ELSE LET found == UpdateExistingQuery(g.db, collection, appId, itemId, userId, userRole) IN
      IF Cardinality(found) # 1 THEN [db |-> g.db, status |-> 404, rows |-> {}]
      ELSE LET existing == TheRow(found)
               merged == Spread(existing.data, data)
           IN IF validateDataAgainstSchema(ValidatedOnUpdate(merged, data),
                                           collection.schema) # {}
              THEN [db |-> g.db, status |-> 400, rows |-> {}]
              ELSE LET updated == {IF i.id = itemId /\ i.app_id = appId
                                   THEN [i EXCEPT !.data = merged] ELSE i
                                   : i \in g.db.app_collection_items}
                   IN [db |-> [g.db EXCEPT !.app_collection_items = updated],
                       status |-> 200,
                       rows |-> {i \in updated : i.id = itemId /\ i.app_id = appId}]

\* deleteItem, line 298
DeleteOwnerFilter(settings, userId, userRole) ==
  "ownerWriteOnly" \in settings /\ ~Privileged(userRole) /\ userId # Null

\* deleteItem, lines 292-300: the rows the delete removes
DeleteQuery(d, collection, appId, itemId, userId, userRole) ==
  {i \in d.app_collection_items :
     /\ i.id = itemId
     /\ i.app_id = appId
     /\ (DeleteOwnerFilter(Settings(collection), userId, userRole) => i.end_user_id = userId)}

\* deleteItem answers { success: true } whatever the delete matched
deleteItem(d, appId, collectionName, itemId, userId, userRole) ==
  LET g == getOrCreateCollection(d, appId, collectionName) IN
  IF g.error THEN [db |-> g.db, status |-> 500, rows |-> {}]
  ELSE LET gone == DeleteQuery(g.db, TheRow(g.rows), appId, itemId, userId, userRole) IN
       [db |-> [g.db EXCEPT !.app_collection_items = @ \ gone], status |-> 200, rows |-> {}]

\* countItems counts by collection_id alone; rows are the rows it counted
countItems(d, appId, collectionName) ==
  LET g == getOrCreateCollection(d, appId, collectionName) IN
  IF g.error THEN [db |-> g.db, status |-> 500, rows |-> {}, count |-> 0]
  ELSE LET counted == {i \in g.db.app_collection_items :
                         i.collection_id = TheRow(g.rows).id /\ ~i.is_archived}
       IN [db |-> g.db, status |-> 200, rows |-> counted, count |-> Cardinality(counted)]

\* bulkDelete, lines 322-326: delete ... in('id', itemIds).eq('app_id', appId)
\* itemIds is the list of the request body: .in('id', itemIds)
In(id, itemIds) == \E n \in DOMAIN itemIds : itemIds[n] = id

BulkQuery_AnyTenant(d, collection, appId, itemIds) ==
  {i \in d.app_collection_items : In(i.id, itemIds)}

BulkQuery(d, collection, appId, itemIds) ==
  {i \in d.app_collection_items : In(i.id, itemIds) /\ i.app_id = appId}

\* both bulk operations answer itemIds.length
bulkDelete(d, appId, collectionName, itemIds) ==
  LET g == getOrCreateCollection(d, appId, collectionName) IN
  IF g.error THEN [db |-> g.db, status |-> 500, rows |-> {}, count |-> 0]
  ELSE LET gone == BulkQuery(g.db, TheRow(g.rows), appId, itemIds) IN
       [db |-> [g.db EXCEPT !.app_collection_items = @ \ gone],
        status |-> 200, rows |-> {}, count |-> Len(itemIds)]

bulkArchive(d, appId, collectionName, itemIds) ==
  LET g == getOrCreateCollection(d, appId, collectionName) IN
  IF g.error THEN [db |-> g.db, status |-> 500, rows |-> {}, count |-> 0]
  ELSE LET hit == BulkQuery(g.db, TheRow(g.rows), appId, itemIds)
           archived == {IF i \in hit THEN [i EXCEPT !.is_archived = TRUE] ELSE i
                        : i \in g.db.app_collection_items}
       IN [db |-> [g.db EXCEPT !.app_collection_items = archived],
           status |-> 200, rows |-> {}, count |-> Len(itemIds)]

\* getStats: per collection of the tenant, the rows counted by collection_id
getStats(d, appId) ==
  [db |-> d, status |-> 200,
   rows |-> {i \in d.app_collection_items :
               \E c \in listCollections(d, appId) : i.collection_id = c.id}]

\* an update that writes the settings whether they are passed or not
updateCollectionSchema_SettingsAlways(d, appId, collectionName, schema, settings) ==
  LET g == getOrCreateCollection(d, appId, collectionName) IN
  IF g.error THEN [db |-> g.db, status |-> 500, rows |-> {}]
  ELSE LET collection == TheRow(g.rows)
           updated == {IF c.id = collection.id /\ c.app_id = appId
                       THEN [c EXCEPT !.schema = schema,
                                      !.settings = IF settings = {} THEN {} ELSE TheRow(settings)]
                       ELSE c : c \in g.db.app_collections}
       IN [db |-> [g.db EXCEPT !.app_collections = updated], status |-> 200, rows |-> {}]

\* updateCollectionSchema: settings is {} (not passed) or {s}
updateCollectionSchema(d, appId, collectionName, schema, settings) ==
  LET g == getOrCreateCollection(d, appId, collectionName) IN
  IF g.error THEN [db |-> g.db, status |-> 500, rows |-> {}]
  ELSE LET collection == TheRow(g.rows)
           updated == {IF c.id = collection.id /\ c.app_id = appId
                       THEN [c EXCEPT !.schema = schema,
                                      !.settings = IF settings = {} THEN @ ELSE TheRow(settings)]
                       ELSE c : c \in g.db.app_collections}
       IN [db |-> [g.db EXCEPT !.app_collections = updated], status |-> 200, rows |-> {}]

\* -------------------------------------------------------- rate limiting
\* the presets share one window; the capacities of the read and the write
\* class (100 and 30) are scaled down
WindowMs == 60000
ReadMax == 3
WriteMax == 2
IdleMs == 600000
SweepEveryMs == 300000
MsPerSecond == 1000

RouteClasses == {"read", "write"}

\* dataReadRateLimit, dataWriteRateLimit
Presets == [read  |-> [maxRequests |-> ReadMax, windowMs |-> WindowMs],
            write |-> [maxRequests |-> WriteMax, windowMs |-> WindowMs]]

\* Math.floor and Math.ceil of a quotient
Floor(x, d) == x \div d
Ceil(x, d) == -((-x) \div d)

\* `${req.headers['x-app-id'] || req.ip}:${req.path}`
KeyOf(appIdHeader, ip, path) ==
  <<IF appIdHeader # Null THEN appIdHeader ELSE ip, path>>

HasBucket(bs, key) == key \in DOMAIN bs

SetBucket(bs, key, bucket) ==
  [k \in DOMAIN bs \cup {key} |-> IF k = key THEN bucket ELSE bs[k]]

\* buckets.get(key), or the bucket a first request creates; nan says that
\* tokens is not a number
BucketOf(bs, key, t, config) ==
  IF HasBucket(bs, key) THEN bs[key]
  ELSE [tokens |-> config.maxRequests, nan |-> FALSE, lastRefill |-> t]

\* lines 475-480
Refilled(bucket, t, config) ==
  LET elapsed == t - bucket.lastRefill
      refill == Floor(elapsed, config.windowMs) * config.maxRequests
  IN IF refill > 0
     THEN [bucket EXCEPT !.tokens = Min(config.maxRequests, @ + refill),
                         !.lastRefill = t]
     ELSE bucket

Exhausted_BelowZero(bucket) == ~bucket.nan /\ bucket.tokens < 0

Exhausted(bucket) == ~bucket.nan /\ bucket.tokens <= 0

\* a hint that drops the started second
RetryAfter_RoundedDown(bucket, t, config) ==
  Floor(config.windowMs - (t - bucket.lastRefill), MsPerSecond)

RetryAfter(bucket, t, config) ==
  Ceil(config.windowMs - (t - bucket.lastRefill), MsPerSecond)

\* the middleware rateLimit(config) returns, on a request with this key at
\* time t
admit(bs, t, key, config) ==
  LET bucket == Refilled(BucketOf(bs, key, t, config), t, config) IN
  IF Exhausted(bucket)
  THEN [buckets |-> SetBucket(bs, key, bucket), allowed |-> FALSE,
        status |-> 429, code |-> "RATE_LIMITED", remaining |-> 0,
        retryAfter |-> RetryAfter(bucket, t, config)]
  ELSE [buckets |-> SetBucket(bs, key, [bucket EXCEPT !.tokens = @ - 1]),
        allowed |-> TRUE, status |-> 0, code |-> Null,
        remaining |-> bucket.tokens - 1, retryAfter |-> 0]

\* rateLimit('reads'): the config is a string, so maxRequests and windowMs
\* are undefined: a new bucket's tokens are undefined, the refill is NaN and
\* never positive, undefined <= 0 is false and tokens-- leaves NaN
admitUnconfigured(bs, t, key) ==
  LET bucket == IF HasBucket(bs, key) THEN bs[key]
                ELSE [tokens |-> 0, nan |-> TRUE, lastRefill |-> t]
  IN IF Exhausted(bucket)
     THEN [buckets |-> SetBucket(bs, key, bucket), allowed |-> FALSE,
           status |-> 429, code |-> "RATE_LIMITED"]
     ELSE [buckets |-> SetBucket(bs, key,
                         IF bucket.nan THEN bucket
                         ELSE [bucket EXCEPT !.tokens = @ - 1]),
           allowed |-> TRUE, status |-> 0, code |-> Null]

\* an eviction that purges what has rested for half a second
sweep_Eager(bs, t) ==
  LET cutoff == t - 500
      kept == {k \in DOMAIN bs : ~(bs[k].lastRefill < cutoff)}
  IN [k \in kept |-> bs[k]]

\* the eviction timer's callback
sweep(bs, t) ==
  LET cutoff == t - IdleMs
      kept == {k \in DOMAIN bs : ~(bs[k].lastRefill < cutoff)}
  IN [k \in kept |-> bs[k]]

\* ----------------------------------------------- the parts left at rest
\* what a header without a readable token carries
NoToken == [sub |-> Null, app |-> Null, role |-> Null, verifies |-> "malformed"]

NoAuth == [userId |-> Null, appId |-> Null, role |-> Null]

NoRequest ==
  [appIdHeader |-> Null, scheme |-> "none", token |-> NoToken, route |-> "none",
   at |-> 0, appId |-> Null, authSet |-> FALSE, auth |-> NoAuth,
   status |-> 0, code |-> Null, executed |-> FALSE, limiter |-> "none",
   query |-> <<>>,
   ran |-> [appId |-> Null, userId |-> Null, userRole |-> Null, columns |-> {}]]

NoAnswer ==
  [key |-> <<>>, class |-> Null, allowed |-> FALSE, status |-> 0, code |-> Null,
   remaining |-> 0, retryAfter |-> 0, counted |-> FALSE, nth |-> 0,
   alone |-> FALSE, sinceFirst |-> 0]

IdleRace == procs = <<>>

NoCheck == [schema |-> <<>>, data |-> <<>>, errors |-> {}, done |-> FALSE]
IdleValidate == check = NoCheck

IdleAuth == req = NoRequest

\* the identity tables before any signup; whether app_end_users has a
\* unique (app_id, email) constraint is a property of the database that
\* the repository does not show
EmptyIdb(constrained) ==
  [app_end_users |-> {}, end_user_count |-> [a \in Apps |-> 0],
   nextUserId |-> 1, nextToken |-> 1, emailUnique |-> constrained,
   changes |-> <<>>]

IdleIdentity ==
  /\ idb = EmptyIdb(TRUE)
  /\ calls = <<>>
  /\ clock = 0

IdleLimiter ==
  /\ buckets = <<>>
  /\ now = 0
  /\ ticks = 0
  /\ sweepAt = 0
  /\ rlLast = NoAnswer
  /\ epoch = <<>>
  /\ admitted = <<>>

\* ------------------------------------------------------------ the store
Target(appId, name) == [appId |-> appId, name |-> name]

Caller(userId, userRole) == [userId |-> userId, userRole |-> userRole]

\* Calls about the access settings: one collection takes each setting, and
\* callers with no identity, two users, an editor and an admin use it.
PolicyScope ==
  [targets |-> {Target("a1", "notes")},
   configs |-> {[target |-> Target("a1", "notes"), schema |-> <<>>, settings |-> {s}]
                  : s \in SettingsChoices},
   creates |-> {[title |-> "X"]},
   updates |-> {[status |-> "done"]},
   callers |-> Callers,
   archive |-> FALSE]

\* Calls about tenants and relations: two tenants, "notes" of a1 takes a
\* schema whose ref field points into "tasks".
TenantScope ==
  [targets |-> {Target("a1", "notes"), Target("a1", "tasks"), Target("a2", "tasks")},
   configs |-> {[target |-> Target("a1", "notes"), schema |-> <<TitleField, RefField>>,
                 settings |-> {}]},
   creates |-> {[title |-> "X", ref |-> "1"]},
   updates |-> {[status |-> "done"]},
   callers |-> {Anonymous},
   archive |-> FALSE]

\* Calls about archiving: two tenants with one collection each; a1's takes
\* a schema that its items do not meet.
ArchiveScope ==
  [targets |-> {Target("a1", "notes"), Target("a2", "notes")},
   configs |-> {[target |-> Target("a1", "notes"), schema |-> <<StatusField>>,
                 settings |-> {}]},
   creates |-> {[title |-> "X"]},
   updates |-> {},
   callers |-> {Caller("u1", "admin")},
   archive |-> TRUE]

Scopes == {PolicyScope, TenantScope, ArchiveScope}

ListOpts ==
  {[limit |-> l, offset |-> o, order |-> ord, filters |-> f,
    userId |-> c.userId, userRole |-> c.userRole] :
     l \in {1, 1000}, o \in {0, 1}, ord \in {"asc", "desc"},
     f \in {<<>>, [title |-> "X"]}, c \in Callers}

\* every item of the table, whatever the paging
FullPage(c) ==
  [limit |-> 1000, offset |-> 0, order |-> "desc", filters |-> <<>>,
   userId |-> c.userId, userRole |-> c.userRole]

\* lists of ids: one id, every id, one id twice
AllIds == [n \in ItemIds |-> n]
IdLists == {<<n>> : n \in ItemIds} \cup {AllIds} \cup {<<1, 1>>}

EmptyDb ==
  [app_collections |-> {}, app_collection_items |-> {},
   nextCollectionId |-> 1, nextItemId |-> 1]

InitStore ==
  /\ db = EmptyDb
  /\ scope \in Scopes
  /\ IdleRace /\ IdleAuth /\ IdleLimiter /\ IdleValidate /\ IdleIdentity

\* the storage engine holds what the handler left; at most MaxItems inserts
Answer(out) ==
  /\ out.db.nextItemId <= MaxItems + 1
  /\ db' = out.db
  /\ UNCHANGED <<idVars, valVars, scope, raceVars, authVars, rlVars>>

ListItems ==
  \E t \in scope.targets, c \in scope.callers :
    Answer(listItems(db, t.appId, t.name, FullPage(c)))

GetItem ==
  \E t \in scope.targets, itemId \in ItemIds, c \in scope.callers :
    Answer(getItem(db, t.appId, t.name, itemId, c.userId, c.userRole))

CreateItem ==
  \E t \in scope.targets, data \in scope.creates, c \in scope.callers :
    Answer(createItem(db, t.appId, t.name, data, c.userId, c.userRole))

UpdateItem ==
  \E t \in scope.targets, itemId \in ItemIds, data \in scope.updates, c \in scope.callers :
    Answer(updateItem(db, t.appId, t.name, itemId, data, c.userId, c.userRole))

DeleteItem ==
  \E t \in scope.targets, itemId \in ItemIds, c \in scope.callers :
    Answer(deleteItem(db, t.appId, t.name, itemId, c.userId, c.userRole))

CountItems ==
  \E t \in scope.targets : Answer(countItems(db, t.appId, t.name))

BulkDelete ==
  \E t \in scope.targets, ids \in IdLists :
    Answer(bulkDelete(db, t.appId, t.name, ids))

BulkArchive ==
  \E t \in scope.targets, ids \in IdLists :
    /\ scope.archive
    /\ Answer(bulkArchive(db, t.appId, t.name, ids))

GetStats ==
  \E t \in scope.targets : Answer(getStats(db, t.appId))

UpdateCollectionSchema ==
  \E cfg \in scope.configs :
    Answer(updateCollectionSchema(db, cfg.target.appId, cfg.target.name,
                                  cfg.schema, cfg.settings))

Next ==
  \/ ListItems
  \/ GetItem
  \/ CreateItem
  \/ UpdateItem
  \/ DeleteItem
  \/ CountItems
  \/ BulkDelete
  \/ BulkArchive
  \/ GetStats
  \/ UpdateCollectionSchema

Init == InitStore

Spec == Init /\ [][Next]_vars

\* ----------------------------------------------------- access settings
AllCallers == {Anonymous} \cup {Caller(u, r) : u \in Users, r \in Roles}

OptsOf(c) == {o \in ListOpts : o.userId = c.userId /\ o.userRole = c.userRole}

Items == db.app_collection_items

ItemsIn(collection) == {i \in Items : i.collection_id = collection.id}

With(flag) == {c \in db.app_collections : flag \in c.settings}

\* the caller is an identity, not admin, not editor, and not the item's owner
Stranger(a, item) ==
  /\ a.userId # Null
  /\ ~Privileged(a.userRole)
  /\ item.end_user_id # Null
  /\ item.end_user_id # a.userId

\* C1: in an ownerReadOnly collection, an authenticated caller who is neither
\* admin nor editor never gets another identity's item from listItems and
\* gets 404 from getItem on it; an admin gets the item from both (listItems
\* lists the items that are not archived).
C1_OwnerReadOnly ==
  \A c \in With("ownerReadOnly") : \A i \in ItemsIn(c) : \A a \in AllCallers :
    /\ Stranger(a, i) =>
         /\ \A o \in OptsOf(a) : i \notin listItems(db, c.app_id, c.name, o).rows
         /\ getItem(db, c.app_id, c.name, i.id, a.userId, a.userRole).status = 404
    /\ a.userRole = "admin" =>
         /\ ~i.is_archived => i \in listItems(db, c.app_id, c.name, FullPage(a)).rows
         /\ getItem(db, c.app_id, c.name, i.id, a.userId, a.userRole).status = 200
         /\ getItem(db, c.app_id, c.name, i.id, a.userId, a.userRole).rows = {i}

\* An ownerReadOnly collection holds an item of u1 and an item of u2: u1 lists
\* its own item only, gets 404 on u2's item, and the admin lists both.
C1_Witness ==
  \E c \in With("ownerReadOnly") : \E i, j \in ItemsIn(c) :
    /\ i.end_user_id = "u1" /\ j.end_user_id = "u2"
    /\ listItems(db, c.app_id, c.name, FullPage(Caller("u1", "user"))).rows = {i}
    /\ getItem(db, c.app_id, c.name, j.id, "u1", "user").status = 404
    /\ listItems(db, c.app_id, c.name, FullPage(Caller("u1", "admin"))).rows = {i, j}

\* C2: in an ownerReadOnly collection a caller without identity gets an empty
\* list and 404 on every item of the collection.
C2_AnonymousSeesNothing ==
  \A c \in With("ownerReadOnly") :
    /\ \A o \in OptsOf(Anonymous) : listItems(db, c.app_id, c.name, o).rows = {}
    /\ \A i \in ItemsIn(c) : getItem(db, c.app_id, c.name, i.id, Null, Null).status = 404

SameItems(out) == out.db.app_collection_items = Items

Denied(out, status) == out.status = status /\ SameItems(out)

\* C3: in an adminWriteOnly collection every createItem, updateItem and
\* deleteItem of a caller who is not admin answers 403 and changes no item.
C3_AdminWriteOnly ==
  \A c \in With("adminWriteOnly") : \A a \in AllCallers : a.userRole # "admin" =>
    /\ \A data \in CreatePayloads :
         Denied(createItem(db, c.app_id, c.name, data, a.userId, a.userRole), 403)
    /\ \A id \in ItemIds, data \in UpdatePayloads :
         Denied(updateItem(db, c.app_id, c.name, id, data, a.userId, a.userRole), 403)
    /\ \A id \in ItemIds :
         Denied(deleteItem(db, c.app_id, c.name, id, a.userId, a.userRole), 403)

\* C4: in an ownerWriteOnly collection an updateItem or deleteItem of a caller
\* who is neither admin nor editor, on an item the caller does not own,
\* answers 404 and leaves the item as it is.
C4_OwnerWriteOnly ==
  \A c \in With("ownerWriteOnly") : \A i \in ItemsIn(c) : \A a \in AllCallers :
    (~Privileged(a.userRole) /\ (a.userId = Null \/ i.end_user_id # a.userId)) =>
      /\ \A data \in UpdatePayloads :
           Denied(updateItem(db, c.app_id, c.name, i.id, data, a.userId, a.userRole), 404)
      /\ Denied(deleteItem(db, c.app_id, c.name, i.id, a.userId, a.userRole), 404)

\* C5: getItem, updateItem, deleteItem, bulkDelete and bulkArchive called
\* with a collection name never return or change an item of another
\* collection of the tenant; the first three answer 404.
C5_CollectionScoped ==
  \A c, other \in db.app_collections :
    (c.app_id = other.app_id /\ c.id # other.id) =>
      \A i \in ItemsIn(other) :
        /\ \A a \in AllCallers :
             /\ Denied(getItem(db, c.app_id, c.name, i.id, a.userId, a.userRole), 404)
             /\ \A data \in UpdatePayloads :
                  Denied(updateItem(db, c.app_id, c.name, i.id, data, a.userId, a.userRole), 404)
             /\ Denied(deleteItem(db, c.app_id, c.name, i.id, a.userId, a.userRole), 404)
        /\ SameItems(bulkDelete(db, c.app_id, c.name, <<i.id>>))
        /\ SameItems(bulkArchive(db, c.app_id, c.name, <<i.id>>))

\* -------------------------------------------------------------- round trip
\* payloads with a key that the returned object also sets; a caller's _meta
\* is an object as the system's is
RoundTripPayloads ==
  {[title |-> "X"], [id |-> "x9"], "_meta" :> [owner_id |-> "u9"]}

SystemKeys == {"id", "_meta"}

\* the returned object carries the payload and the row's id
CarriesPayload(view, data, row) ==
  /\ \A k \in DOMAIN data : k \in DOMAIN view /\ view[k] = data[k]
  /\ (DOMAIN view) \ (DOMAIN data) \subseteq SystemKeys
  /\ view["id"] = ToString(row.id)

\* C14: after createItem accepted a payload D, getItem on the created row's
\* id returns every key of D with its value, no further key but the system's
\* id and _meta beside the data, and the id of the stored row.
C14_RoundTrip ==
  \A c \in db.app_collections : \A data \in RoundTripPayloads :
    LET made == createItem(db, c.app_id, c.name, data, "u1", "admin") IN
    made.status = 201 =>
      LET row == TheRow(made.rows)
          got == getItem(made.db, c.app_id, c.name, row.id, "u1", "admin")
      IN /\ got.status = 200
         /\ row.data = data
         /\ CarriesPayload(got.item, data, row)

\* ------------------------------------------------------------------ merge
\* the value of key k after P was merged over the old data
MergedValue(old, P, k) == IF k \in DOMAIN P THEN P[k] ELSE old[k]

IsShallowMerge(new, old, P) ==
  /\ DOMAIN new = (DOMAIN old) \cup (DOMAIN P)
  /\ \A k \in DOMAIN new : new[k] = MergedValue(old, P, k)

\* the validator's verdict on the merge of P over the old data
MergeValid(c, old, P) ==
  validateDataAgainstSchema([k \in (DOMAIN old) \cup (DOMAIN P) |-> MergedValue(old, P, k)],
                            c.schema) = {}

\* C15: an updateItem that finds its item and is permitted either stores
\* exactly the shallow merge of the payload over the old data, that merge
\* being valid against the schema of the collection, all other rows staying
\* as they were, or answers 400 on an invalid merge and changes nothing.
C15_MergeThenValidate ==
  \A c \in db.app_collections : \A i \in Items :
    \A P \in UpdatePayloads : \A who \in AllCallers :
      LET out == updateItem(db, c.app_id, c.name, i.id, P, who.userId, who.userRole) IN
      out.status \notin {403, 404} =>
        \/ /\ out.status = 200
           /\ MergeValid(c, i.data, P)
           /\ \E n \in out.db.app_collection_items :
                /\ n.id = i.id
                /\ IsShallowMerge(n.data, i.data, P)
                /\ out.db = [db EXCEPT !.app_collection_items = (@ \ {i}) \cup {n}]
        \/ /\ out.status = 400
           /\ ~MergeValid(c, i.data, P)
           /\ out.db = db

\* an item of a collection with a schema holds a stored merge, and an update
\* that would empty its required title is refused
C15_Witness ==
  \E c \in db.app_collections : \E i \in ItemsIn(c) :
    /\ c.schema # <<>>
    /\ DOMAIN i.data = {"title", "ref", "status"}
    /\ i.data["status"] = "done"
    /\ updateItem(db, c.app_id, c.name, i.id, [title |-> ""], Null, Null).status = 400

\* ------------------------------------------------------ tenant isolation
Foreign(d, appId) ==
  [items |-> {i \in d.app_collection_items : i.app_id # appId},
   collections |-> {c \in d.app_collections : c.app_id # appId}]

\* the call of tenant appId showed rows of that tenant only and left the
\* rows of every other tenant as they were
Isolated(appId, out) ==
  /\ \A r \in out.rows : r.app_id = appId
  /\ Foreign(out.db, appId) = Foreign(db, appId)

\* the callers of the isolation check: no identity, a user, an admin
TenantCallers == {Anonymous, Caller("u1", "user"), Caller("u2", "admin")}

\* the first row of the items whose title is X
FirstOfTitleX(c) == [FullPage(c) EXCEPT !.limit = 1, !.filters = [title |-> "X"]]

\* C6: a data-service call made with tenant A returns and counts rows of
\* tenant A only and leaves every item and collection of the other tenants
\* as it was.
C6_TenantIsolation ==
  \A appId \in Apps : \A n \in CollectionNames :
    /\ \A a \in TenantCallers :
         /\ Isolated(appId, listItems(db, appId, n, FullPage(a)))
         /\ Isolated(appId, listItems(db, appId, n, FirstOfTitleX(a)))
    /\ \A id \in ItemIds, a \in TenantCallers :
         /\ Isolated(appId, getItem(db, appId, n, id, a.userId, a.userRole))
         /\ Isolated(appId, deleteItem(db, appId, n, id, a.userId, a.userRole))
         /\ \A data \in UpdatePayloads :
              Isolated(appId, updateItem(db, appId, n, id, data, a.userId, a.userRole))
    /\ \A data \in CreatePayloads, a \in TenantCallers :
         Isolated(appId, createItem(db, appId, n, data, a.userId, a.userRole))
    /\ \A ids \in IdLists :
         /\ Isolated(appId, bulkDelete(db, appId, n, ids))
         /\ Isolated(appId, bulkArchive(db, appId, n, ids))
    /\ Isolated(appId, countItems(db, appId, n))
    /\ Isolated(appId, getStats(db, appId))
    /\ \A schema \in SchemaChoices :
         Isolated(appId, updateCollectionSchema(db, appId, n, schema, {}))

\* Both tenants hold an item; a bulk delete of every id by tenant a1 removes
\* a1's item and leaves a2's.
C6_Witness ==
  \E i, j \in Items :
    /\ i.app_id = "a1" /\ j.app_id = "a2"
    /\ \E c \in db.app_collections :
         /\ c.app_id = "a1"
         /\ bulkDelete(db, "a1", c.name, AllIds).db.app_collection_items = {j}

\* ------------------------------------------------- the limiter in time
MaxTicks == 3

\* 500 ms and 59500 ms make one window; 300000 ms is the eviction period
TickSteps == {500, WindowMs - 500, SweepEveryMs}

ClientIp == "10.0.0.9"

\* GET and POST /data/:collection of one tenant, as the router sees them
LimitedRequests ==
  {[appIdHeader |-> "a1", path |-> path, class |-> class] :
     path \in {"/data/notes"}, class \in RouteClasses}

WatchedKeys == {KeyOf(r.appIdHeader, ClientIp, r.path) : r \in LimitedRequests}

CountCap == ReadMax + 2

\* what a behaviour of the limiter keeps beside the limiter's own state: the
\* window that the first request of the key opens, or the log of admissions
WindowWatch == [watch |-> "window"]
LogWatch == [watch |-> "log"]

InitLimiter ==
  /\ buckets = <<>>
  /\ now = 0
  /\ ticks = 0
  /\ sweepAt = 0
  /\ rlLast = NoAnswer
  /\ epoch \in {[key |-> k, open |-> FALSE, first |-> 0, count |-> 0,
                   classes |-> {}] : k \in WatchedKeys}
  /\ admitted = <<>>
  /\ db = EmptyDb
  /\ scope \in {WindowWatch, LogWatch}
  /\ IdleRace /\ IdleAuth /\ IdleValidate /\ IdleIdentity

\* the watched key's window: it opens with the request that finds no bucket,
\* and the first request a window or more later closes it; count numbers the
\* requests with the key, classes are the limiters they went through
Counted(r) ==
  /\ scope = WindowWatch
  /\ KeyOf(r.appIdHeader, ClientIp, r.path) = epoch.key
  /\ epoch.open \/ ~HasBucket(buckets, epoch.key)

EpochAfter(r) ==
  IF ~Counted(r) THEN epoch
  ELSE IF ~epoch.open
  THEN [epoch EXCEPT !.open = TRUE, !.first = now, !.count = 1,
                     !.classes = {r.class}]
  ELSE IF now - epoch.first >= WindowMs
  THEN [epoch EXCEPT !.open = FALSE]
  ELSE [epoch EXCEPT !.count = Min(@ + 1, CountCap),
                     !.classes = @ \cup {r.class}]

\* the admissions less than a window before time t
InWindow(log, t) == SelectSeq(log, LAMBDA a : t - a.at < WindowMs)

LimitedRequest(r) ==
  LET key == KeyOf(r.appIdHeader, ClientIp, r.path)
      out == admit(buckets, now, key, Presets[r.class])
  IN /\ buckets' = out.buckets
     /\ epoch' = EpochAfter(r)
     /\ admitted' = IF out.allowed /\ scope = LogWatch
                    THEN Append(admitted, [at |-> now, class |-> r.class])
                    ELSE admitted
     /\ rlLast' = [key |-> key, class |-> r.class, allowed |-> out.allowed,
                   status |-> out.status, code |-> out.code,
                   remaining |-> out.remaining, retryAfter |-> out.retryAfter,
                   counted |-> Counted(r),
                   nth |-> IF Counted(r) /\ epoch.open
                           THEN Min(epoch.count + 1, CountCap)
                           ELSE IF Counted(r) THEN 1 ELSE 0,
                   alone |-> Counted(r) /\ (epoch.open => epoch.classes = {r.class}),
                   sinceFirst |-> IF Counted(r) /\ epoch.open
                                  THEN now - epoch.first ELSE 0]
     /\ UNCHANGED <<idVars, valVars, now, ticks, sweepAt, storeVars, raceVars, authVars>>

Request == \E r \in LimitedRequests : LimitedRequest(r)

Tick ==
  /\ ticks < MaxTicks
  /\ \E d \in TickSteps : now' = now + d
  /\ ticks' = ticks + 1
  /\ admitted' = InWindow(admitted, now')
  /\ UNCHANGED <<idVars, valVars, buckets, sweepAt, rlLast, epoch, storeVars, raceVars, authVars>>

\* setInterval(..., 5 * 60 * 1000)
Sweep ==
  /\ now >= sweepAt
  /\ buckets' = sweep(buckets, now)
  /\ sweepAt' = now + SweepEveryMs
  /\ UNCHANGED <<idVars, valVars, now, ticks, rlLast, epoch, admitted, storeVars, raceVars, authVars>>

NextLimiter == Request \/ Tick \/ Sweep

SpecLimiter == InitLimiter /\ [][NextLimiter]_vars

\* C10: starting with no bucket for a key, a limiter with maxRequests = n and
\* windowMs = w admits the first n requests that come less than w ms after
\* the first, rejects the next one inside the window with RATE_LIMITED and a
\* retry-after of at least 1 second, and admits a request that comes w ms or
\* more after the first. A request among the first n with the key is among
\* the first n of its limiter too; the request after the n-th is judged when
\* every request of the window went through its limiter.
C10_WindowAdmission ==
  rlLast.counted =>
    LET n == Presets[rlLast.class].maxRequests
        w == Presets[rlLast.class].windowMs
    IN /\ (rlLast.sinceFirst < w /\ rlLast.nth <= n) => rlLast.allowed
       /\ (rlLast.sinceFirst < w /\ rlLast.nth = n + 1 /\ rlLast.alone) =>
            /\ ~rlLast.allowed
            /\ rlLast.code = "RATE_LIMITED"
            /\ rlLast.retryAfter >= 1
       /\ rlLast.sinceFirst >= w => rlLast.allowed

\* the admissions of one route class in the window that ends now
AdmittedOf(class) == Len(SelectSeq(admitted, LAMBDA a : a.class = class))

MaxCapacity == IF ReadMax >= WriteMax THEN ReadMax ELSE WriteMax

ClassRequests ==
  {[appIdHeader |-> "a1", path |-> path, class |-> class] :
     path \in {"/data/notes", "/data/tasks"}, class \in RouteClasses}

RequestKey(r) == KeyOf(r.appIdHeader, ClientIp, r.path)

\* the bucket of a key is the same in both maps
SameBucket(bs, cs, key) ==
  /\ HasBucket(bs, key) <=> HasBucket(cs, key)
  /\ HasBucket(bs, key) => bs[key] = cs[key]

\* C12: a bucket belongs to one (tenant-or-IP, route class) pair and has the
\* capacity of that class: a request does not create or change the bucket
\* that a request of another class uses, the requests of one class and one
\* tenant use one bucket whatever their path, and an admitted request leaves
\* fewer tokens than its class's maxRequests.
C12_BucketPerClass ==
  \A r \in ClassRequests :
    LET out == admit(buckets, now, RequestKey(r), Presets[r.class]) IN
    /\ \A o \in ClassRequests :
         /\ o.class # r.class => SameBucket(buckets, out.buckets, RequestKey(o))
         /\ o.class = r.class => RequestKey(o) = RequestKey(r)
    /\ out.allowed => out.remaining < Presets[r.class].maxRequests

\* ------------------------------------------- concurrent createItem calls
NumCreators == 2

Creators == 1..NumCreators

\* a createItem call of tenant a1 that has not started
NewCall(name, data) ==
  [pc |-> "select", appId |-> "a1", name |-> name, data |-> data,
   collection |-> {}, status |-> 0]

InitRace ==
  /\ db = EmptyDb
  /\ scope = PolicyScope
  /\ procs \in [Creators -> {NewCall(n, data) : n \in CollectionNames,
                                               data \in CreatePayloads}]
  /\ IdleAuth /\ IdleLimiter /\ IdleValidate /\ IdleIdentity

\* getOrCreateCollection up to its first await's answer, lines 36-43
SelectCollection(p) ==
  LET call == procs[p]
      existing == FindCollection(db, call.appId, call.name)
  IN /\ call.pc = "select"
     /\ procs' = [procs EXCEPT ![p] =
          IF Cardinality(existing) = 1
          THEN [call EXCEPT !.pc = "create", !.collection = existing]
          ELSE [call EXCEPT !.pc = "insert"]]
     /\ UNCHANGED <<idVars, valVars, storeVars, authVars, rlVars>>

\* the insert and its answer, lines 46-58; the error is thrown through
\* createItem to the route, which answers 500
InsertNewCollection(p) ==
  LET call == procs[p]
      out == InsertCollection(db, call.appId, call.name)
  IN /\ call.pc = "insert"
     /\ db' = out.db
     /\ procs' = [procs EXCEPT ![p] =
          IF out.error
          THEN [call EXCEPT !.pc = "done", !.status = 500]
          ELSE [call EXCEPT !.pc = "create", !.collection = out.rows]]
     /\ UNCHANGED <<idVars, valVars, scope, authVars, rlVars>>

\* the rest of createItem on the collection it was given
InsertItem(p) ==
  LET call == procs[p]
      out == createItemIn(db, call.appId, TheRow(call.collection), call.data,
                          Null, Null)
  IN /\ call.pc = "create"
     /\ db' = out.db
     /\ procs' = [procs EXCEPT ![p] = [call EXCEPT !.pc = "done",
                                                   !.status = out.status]]
     /\ UNCHANGED <<idVars, valVars, scope, authVars, rlVars>>

NextRace ==
  \E p \in Creators : SelectCollection(p) \/ InsertNewCollection(p) \/ InsertItem(p)

SpecRace == InitRace /\ [][NextRace]_vars

AllDone == \A p \in Creators : procs[p].pc = "done"

CallsOn(name) == {p \in Creators : procs[p].name = name}

\* C8: when N >= 2 concurrent createItem calls on a collection name that did
\* not exist have all returned, each has succeeded, the tenant has exactly
\* one collection row of that name, and the collection holds N items.
C8_ConcurrentCreate ==
  AllDone =>
    \A n \in CollectionNames : Cardinality(CallsOn(n)) >= 2 =>
      /\ \A p \in CallsOn(n) : procs[p].status = 201
      /\ Cardinality(FindCollection(db, "a1", n)) = 1
      /\ \A c \in FindCollection(db, "a1", n) :
           Cardinality(ItemsIn(c)) = Cardinality(CallsOn(n))

\* --------------------------------------------------- the middleware chain
\* jwt.sign({sub, app, role}); the older routes sign {sub, app} with the same
\* secret
\* the role claim is the role column of the user's row: one of the four
\* roles, or whatever else the row holds
TokenRoles == {"admin", "editor", "user", "guest", "owner", "constructor", Null}

SignedTokens ==
  {[sub |-> "u1", app |-> a, role |-> r, verifies |-> "ok"] :
     a \in Apps, r \in TokenRoles}

BadTokens ==
  {[sub |-> "u1", app |-> "a2", role |-> "admin", verifies |-> v] :
     v \in {"badSignature", "expired"}} \cup {NoToken}

Authorizations ==
  {[scheme |-> "none", token |-> NoToken], [scheme |-> "Basic", token |-> NoToken]}
  \cup {[scheme |-> "Bearer", token |-> t] : t \in SignedTokens \cup BadTokens}

\* the routers' stacks: router.use(requireAppId), router.use(parseAuth), the
\* route's own middleware and its handler; /sdk/admin is reached through the
\* /sdk router
Chain(route) ==
  CASE route = "listItems" ->
         <<"requireAppId", "parseAuth", "dataReadRateLimit", "handler">>
    [] route = "listCollections" ->
         <<"requireAppId", "parseAuth", "requireAuth", "handler">>
    [] route = "getStats" ->
         <<"requireAppId", "parseAuth", "requireAuth", "requireRole", "handler">>
    [] route = "bulkDelete" ->
         <<"requireAppId", "parseAuth", "requireAuth", "requireRole", "handler">>
    [] route = "adminCollections" ->
         <<"requireAppId", "parseAuth", "requireAppId", "requireAuth",
           "requireRole", "rateLimitReads", "handler">>
    [] OTHER -> <<>>

Routes == {"listItems", "listCollections", "getStats", "bulkDelete", "adminCollections"}

\* req.path in the router that runs the limiter
PathOf(route) == IF route = "adminCollections" THEN "/collections" ELSE "/data/notes"

\* req.query of GET /data/:collection: paging keys and filter keys
ListQueries ==
  {<<>>, [title |-> "X"], [_limit |-> "1", _order |-> "asc", title |-> "X"],
   "title'--" :> "X"}

NewRequests ==
  {[NoRequest EXCEPT !.appIdHeader = h, !.scheme = a.scheme, !.token = a.token,
                     !.route = route, !.at = 1] :
     h \in {"a2", Null}, a \in Authorizations, route \in Routes}
  \cup
  {[NoRequest EXCEPT !.appIdHeader = "a2", !.scheme = a.scheme, !.token = a.token,
                     !.route = "listItems", !.at = 1, !.query = q] :
     a \in Authorizations, q \in ListQueries}

Finished(r) == r.status # 0

Stage(r) ==
  IF r.at \in 1..Len(Chain(r.route)) /\ ~Finished(r) THEN Chain(r.route)[r.at]
  ELSE "none"

apiError(r, status, code) == [r EXCEPT !.status = status, !.code = code]

next(r) == [r EXCEPT !.at = @ + 1]

requireAppId(r) ==
  IF r.appIdHeader = Null THEN apiError(r, 400, "VALIDATION_ERROR")
  ELSE next([r EXCEPT !.appId = r.appIdHeader])

\* header?.startsWith('Bearer ')
HasBearer(r) == r.scheme = "Bearer"

\* jwt.verify(token, JWT_SECRET) returns the payload
JwtVerifies(token) == token.verifies = "ok"

\* req.auth = {userId: payload.sub, appId: payload.app, role: payload.role || 'user'}
WithAuth(r) ==
  [r EXCEPT !.authSet = TRUE,
            !.auth = [userId |-> r.token.sub, appId |-> r.token.app,
                      role |-> IF r.token.role # Null THEN r.token.role ELSE "user"]]

parseAuth(r) ==
  IF ~HasBearer(r) THEN next(r)
  ELSE IF JwtVerifies(r.token) THEN next(WithAuth(r))
  ELSE next(r)

requireAuth_Lenient(r) ==
  IF ~HasBearer(r) THEN apiError(r, 401, "AUTH_REQUIRED")
  ELSE IF JwtVerifies(r.token) THEN next(WithAuth(r))
  ELSE next(r)

requireAuth(r) ==
  IF ~HasBearer(r) THEN apiError(r, 401, "AUTH_REQUIRED")
  ELSE IF JwtVerifies(r.token) THEN next(WithAuth(r))
  ELSE apiError(r, 401, "AUTH_INVALID")

ROLE_HIERARCHY(role) ==
  CASE role = "admin" -> 4 [] role = "editor" -> 3 [] role = "user" -> 2
    [] role = "guest" -> 1 [] OTHER -> 0

\* ROLE_HIERARCHY is an object literal: besides its four own keys a lookup
\* finds what Object.prototype holds, a function or an object
InheritedKeys == {"constructor", "toString", "__proto__"}

\* ROLE_HIERARCHY[req.auth.role] || 0; nan: the value is truthy and no
\* number, and every comparison with it is false
UserLevel(role) ==
  IF role \in InheritedKeys THEN [nan |-> TRUE, level |-> 0]
  ELSE [nan |-> FALSE, level |-> ROLE_HIERARCHY(role)]

requireRole(r, minRole) ==
  IF ~r.authSet THEN apiError(r, 401, "AUTH_REQUIRED")
  ELSE LET userLevel == UserLevel(r.auth.role)
           requiredLevel == ROLE_HIERARCHY(minRole)
       IN IF ~userLevel.nan /\ userLevel.level < requiredLevel
          THEN apiError(r, 403, "FORBIDDEN")
          ELSE next(r)

\* req.auth?.userId, req.auth?.role
AuthCaller(r) ==
  IF r.authSet THEN Caller(r.auth.userId, r.auth.role) ELSE Anonymous

\* parseInt of a query value; NaN is falsy like 0
parseInt == ("1" :> 1) @@ ("2" :> 2)
ParsedInt(query, key) ==
  IF key \in DOMAIN query /\ query[key] \in DOMAIN parseInt THEN parseInt[query[key]] ELSE 0

\* a || b for numbers
OrElse(a, b) == IF a # 0 THEN a ELSE b

PagingKeys == {"_limit", "_offset", "_orderBy", "_order"}

\* const { _limit, _offset, _orderBy, _order, ...filters } = req.query
RestOf(query) ==
  IF DOMAIN query \subseteq PagingKeys THEN <<>>
  ELSE [k \in DOMAIN query \ PagingKeys |-> query[k]]

\* the options GET /data/:collection hands to listItems
ListRouteOpts(query, c) ==
  [limit |-> Min(OrElse(ParsedInt(query, "_limit"), 100), 1000),
   offset |-> OrElse(ParsedInt(query, "_offset"), 0),
   order |-> IF "_order" \in DOMAIN query THEN query["_order"] ELSE "desc",
   filters |-> RestOf(query),
   userId |-> c.userId, userRole |-> c.userRole]

\* listItems, lines 108-113: the column expression of each filter,
\* `data->>${key}`
FilterColumns(filters) == {"data->>" \o key : key \in DOMAIN filters}

\* the handler's call into the data service, and its answer
Handled(r, d) ==
  CASE r.route = "listItems" ->
         listItems(d, r.appId, "notes", ListRouteOpts(r.query, AuthCaller(r)))
    [] r.route = "listCollections" ->
         [db |-> d, status |-> 200, rows |-> listCollections(d, r.appId)]
    [] r.route = "getStats" -> getStats(d, r.appId)
    [] r.route = "bulkDelete" -> bulkDelete(d, r.appId, "notes", AllIds)
    [] OTHER -> [db |-> d, status |-> 200, rows |-> listCollections(d, r.appId)]

\* tenant a2 holds one item of its user u2
SeededDb == createItem(EmptyDb, "a2", "notes", [title |-> "X"], "u2", "user").db

InitAuth ==
  /\ db = SeededDb
  /\ scope = PolicyScope
  /\ req = NoRequest
  /\ IdleRace /\ IdleLimiter /\ IdleValidate /\ IdleIdentity

Arrive ==
  /\ req.at = 0 \/ Finished(req)
  /\ req' \in NewRequests
  /\ UNCHANGED <<idVars, valVars, storeVars, raceVars, rlVars>>

Through(stage, r) ==
  /\ Stage(req) = stage
  /\ req' = r
  /\ UNCHANGED <<idVars, valVars, storeVars, raceVars, rlVars>>

RequireAppId == Through("requireAppId", requireAppId(req))

ParseAuth == Through("parseAuth", parseAuth(req))

RequireAuth == Through("requireAuth", requireAuth(req))

RequireRole == Through("requireRole", requireRole(req, "admin"))

DataReadRateLimit ==
  LET out == admit(buckets, now, KeyOf(req.appIdHeader, ClientIp, PathOf(req.route)),
                   Presets["read"])
  IN /\ Stage(req) = "dataReadRateLimit"
     /\ buckets' = out.buckets
     /\ req' = IF out.allowed THEN next([req EXCEPT !.limiter = "configured"])
               ELSE apiError(req, out.status, out.code)
     /\ UNCHANGED <<idVars, valVars, now, ticks, sweepAt, rlLast, epoch, admitted, storeVars, raceVars>>

RateLimitReads ==
  LET out == admitUnconfigured(buckets, now,
                               KeyOf(req.appIdHeader, ClientIp, PathOf(req.route)))
  IN /\ Stage(req) = "rateLimitReads"
     /\ buckets' = out.buckets
     /\ req' = IF out.allowed THEN next([req EXCEPT !.limiter = "unconfigured"])
               ELSE apiError(req, out.status, out.code)
     /\ UNCHANGED <<idVars, valVars, now, ticks, sweepAt, rlLast, epoch, admitted, storeVars, raceVars>>

Handler ==
  LET out == Handled(req, db) IN
  /\ Stage(req) = "handler"
  /\ db' = out.db
  /\ req' = [req EXCEPT !.status = out.status, !.executed = TRUE,
                        !.ran = [appId |-> req.appId,
                                 userId |-> AuthCaller(req).userId,
                                 userRole |-> AuthCaller(req).userRole,
                                 columns |->
                                   IF req.route = "listItems"
                                   THEN FilterColumns(RestOf(req.query)) ELSE {}]]
  /\ UNCHANGED <<idVars, valVars, scope, raceVars, rlVars>>

NextAuth ==
  \/ Arrive
  \/ RequireAppId
  \/ ParseAuth
  \/ RequireAuth
  \/ RequireRole
  \/ DataReadRateLimit
  \/ RateLimitReads
  \/ Handler

SpecAuth == InitAuth /\ [][NextAuth]_vars

\* routes whose stack holds requireAuth
Protected(route) == \E n \in 1..Len(Chain(route)) : Chain(route)[n] = "requireAuth"

\* the request has passed this middleware
Past(r, stage) == \E n \in 1..Len(Chain(r.route)) : Chain(r.route)[n] = stage /\ n < r.at

\* a validly signed token of another tenant than the one the request names
CrossTenant(r) ==
  /\ HasBearer(r) /\ JwtVerifies(r.token)
  /\ r.appIdHeader # Null /\ r.token.app # r.appIdHeader

\* C7: a request for tenant B with a validly signed token issued for another
\* tenant A is never given the token's identity or role, and no route behind
\* requireAuth or requireRole runs its operation for it.
C7_TokenBoundToTenant ==
  CrossTenant(req) =>
    /\ ~req.authSet
    /\ req.executed =>
         /\ ~Protected(req.route)
         /\ req.ran.userId = Null /\ req.ran.userRole = Null

\* a bearer token that jwt.verify refuses
BadBearer(r) == HasBearer(r) /\ ~JwtVerifies(r.token)

\* C9 as stated: on every route a request with a bearer token that fails
\* verification is answered AUTH_INVALID and its operation does not run; a
\* request without bearer header on a protected route is answered
\* AUTH_REQUIRED.
C9_RejectedOnEveryRoute ==
  /\ (BadBearer(req) /\ req.appIdHeader # Null) =>
       /\ ~req.executed
       /\ Finished(req) => req.status = 401 /\ req.code = "AUTH_INVALID"
  /\ (~HasBearer(req) /\ Protected(req.route) /\ req.appIdHeader # Null) =>
       /\ ~req.executed
       /\ Finished(req) => req.status = 401 /\ req.code = "AUTH_REQUIRED"

\* C9, amended: a bearer token that fails verification never gives the request
\* an identity or a role; on a route behind requireAuth the request with
\* X-App-Id stops at requireAuth with 401 AUTH_INVALID and its operation does
\* not run; on a route with parseAuth only the operation runs without
\* identity. Without bearer header a request with X-App-Id stops at
\* requireAuth with 401 AUTH_REQUIRED.
C9_FailsClosed ==
  /\ BadBearer(req) =>
       /\ ~req.authSet
       /\ req.executed => req.ran.userId = Null /\ req.ran.userRole = Null
       /\ Protected(req.route) =>
            /\ ~req.executed /\ ~Past(req, "requireAuth")
            /\ (Finished(req) /\ req.appIdHeader # Null) =>
                 req.status = 401 /\ req.code = "AUTH_INVALID"
  /\ (~HasBearer(req) /\ Protected(req.route)) =>
       /\ ~req.executed /\ ~Past(req, "requireAuth")
       /\ (Finished(req) /\ req.appIdHeader # Null) =>
            req.status = 401 /\ req.code = "AUTH_REQUIRED"

\* An expired token was answered 401 AUTH_INVALID by requireAuth on the stats
\* route.
C9_Witness ==
  /\ BadBearer(req) /\ req.token.verifies = "expired"
  /\ req.route = "getStats"
  /\ Stage(req) = "none" /\ req.at = 3
  /\ req.status = 401 /\ req.code = "AUTH_INVALID"

\* C13: an operation runs only for a request that a limiter with a finite
\* positive maxRequests admitted, and a request that the limiter rejected
\* runs no operation.
C13_LimiterGatekeeps ==
  /\ req.executed => req.limiter = "configured"
  /\ req.code = "RATE_LIMITED" => ~req.executed

\* =========================================================== the validator
\* Field definitions that fieldDefSchema accepts: each type, required or
\* not, with each of its optional bounds absent, 0 or 1.
Optional(key, values) == {<<>>} \cup {key :> v : v \in values}

BoundValues == {0, 1}

FieldDefs ==
  LET base(type) == {[name |-> "f", type |-> type, required |-> r, relation |-> Null]
                       : r \in BOOLEAN}
  IN  {b @@ lo @@ hi : b \in base("text"), lo \in Optional("minLength", BoundValues),
                       hi \in Optional("maxLength", BoundValues)}
      \cup {b @@ lo @@ hi : b \in base("number"), lo \in Optional("min", BoundValues),
                           hi \in Optional("max", BoundValues)}
      \cup {b @@ e : b \in base("enum"), e \in Optional("enum_values", {{"a"}})}
      \cup base("boolean") \cup base("date") \cup base("email") \cup base("url")
      \cup base("json")

FlagField == [name |-> "g", type |-> "boolean", required |-> TRUE, relation |-> Null]

\* one field alone, or after a required flag
Schemas == {<<f>> : f \in FieldDefs} \cup {<<FlagField, f>> : f \in FieldDefs}

JsonValues ==
  {"", "a", "ab"} \cup DateStrings \cup EmailStrings \cup UrlStrings \cup Numbers \cup Booleans

\* payloads: f absent (or null) or any value, g absent or true
CheckedPayloads ==
  {f @@ g : f \in Optional("f", JsonValues), g \in Optional("g", {"#true"})}

InitValidate ==
  /\ check \in {[schema |-> S, data |-> P, errors |-> {}, done |-> FALSE]
                  : S \in Schemas, P \in CheckedPayloads}
  /\ db = EmptyDb
  /\ scope = PolicyScope
  /\ IdleRace /\ IdleAuth /\ IdleLimiter /\ IdleIdentity

Validate ==
  /\ ~check.done
  /\ check' = [check EXCEPT !.errors = validateDataAgainstSchema(check.data, check.schema),
                            !.done = TRUE]
  /\ UNCHANGED <<idVars, storeVars, raceVars, authVars, rlVars>>

NextValidate == Validate

SpecValidate == InitValidate /\ [][NextValidate]_vars

\* what the schema asks of a payload
Present(data, field) == Get(data, field.name) # Null

Filled(data, field) == Present(data, field) /\ data[field.name] # ""

Satisfies(value, field) ==
  CASE field.type = "text" ->
         /\ TypeOf(value) = "string"
         /\ Has(field, "minLength") => Len(value) >= field.minLength
         /\ Has(field, "maxLength") => Len(value) <= field.maxLength
    [] field.type = "number" ->
         /\ TypeOf(value) = "number"
         /\ Has(field, "min") => NumberValue[value] >= field.min
         /\ Has(field, "max") => NumberValue[value] <= field.max
    [] field.type = "boolean" -> TypeOf(value) = "boolean"
    [] field.type = "date" -> value \in DateStrings
    [] field.type = "email" -> value \in EmailStrings
    [] field.type = "url" -> value \in UrlStrings
    [] field.type = "enum" -> Has(field, "enum_values") => value \in field.enum_values
    [] field.type = "json" -> TRUE

Conforms(data, schema) ==
  \A n \in 1 .. Len(schema) :
    /\ schema[n].required => Filled(data, schema[n])
    /\ Present(data, schema[n]) => Satisfies(data[schema[n].name], schema[n])

\* C19: the validator returns no error exactly when every required field is
\* present (not missing, null or empty) and every present field satisfies
\* its type, range, length and enum constraint, bounds of 0 included.
C19_ValidatorExact ==
  check.done => (check.errors = {} <=> Conforms(check.data, check.schema))

\* ========================================================= failing writes
Permitted(c, who) == ~AdminWriteDenied(Settings(c), who.userRole)

Dangling(c, data) ==
  {n \in 1 .. Len(c.schema) :
     /\ c.schema[n].relation # Null
     /\ ~Falsy(Get(data, c.schema[n].name))
     /\ ~\E t \in FindCollection(db, c.app_id, c.schema[n].relation) :
          \E i \in ItemsIn(t) : ToString(i.id) = data[c.schema[n].name]}

\* C17: createItem with a valid payload whose relation field holds an id of
\* no item of the target collection answers 400 naming the target
\* collection and the id, and stores no item.
C17_DanglingRelationRefused ==
  \A c \in db.app_collections : \A data \in CreatePayloads : \A who \in AllCallers :
    (Conforms(data, c.schema) /\ Dangling(c, data) # {} /\ Permitted(c, who)) =>
      LET out == createItem(db, c.app_id, c.name, data, who.userId, who.userRole)
          first == CHOOSE n \in Dangling(c, data) : \A m \in Dangling(c, data) : n <= m
          field == c.schema[first]
      IN /\ out.status = 400
         /\ out.missing = <<field.relation, data[field.name]>>
         /\ out.db.app_collection_items = Items

\* items are stored, none of them is item 1 of the target collection, and a
\* create that refers to tasks/1 is refused
C17_Witness ==
  \E c \in db.app_collections :
    /\ Items # {}
    /\ Dangling(c, [title |-> "X", ref |-> "1"]) # {}
    /\ createItem(db, c.app_id, c.name, [title |-> "X", ref |-> "1"], Null, Null).missing
         = <<"tasks", "1">>

\* C18: a createItem or updateItem that ends in a validation error or a
\* dangling-relation error (400) leaves the whole store as it was: no item
\* row and no collection row is created or changed.
C18_FailedWriteChangesNothing ==
  \A c \in db.app_collections : \A who \in AllCallers :
    /\ \A data \in CreatePayloads :
         LET out == createItem(db, c.app_id, c.name, data, who.userId, who.userRole) IN
         out.status = 400 => out.db = db
    /\ \A data \in UpdatePayloads : \A i \in Items :
         LET out == updateItem(db, c.app_id, c.name, i.id, data, who.userId, who.userRole) IN
         out.status = 400 => out.db = db

\* C20: deleteItem on an id that matches no item answers 404.
C20_DeleteOfAbsentIsNotFound ==
  \A c \in db.app_collections : \A id \in ItemIds : \A who \in AllCallers :
    (~\E i \in Items : i.id = id) =>
      deleteItem(db, c.app_id, c.name, id, who.userId, who.userRole).status = 404

\* ============================================================== archiving
\* no list and no count the tenant can ask of store d shows the item with
\* this id
Hidden(d, appId, id) ==
  \A t \in listCollections(d, appId) :
    /\ \A opts \in ListOpts :
         \A r \in listItems(d, t.app_id, t.name, opts).rows : r.id # id
    /\ \A r \in countItems(d, t.app_id, t.name).rows : r.id # id

\* C21: after bulkArchive([id]) on an item of the tenant, called once or
\* twice, no listItems result holds the item and countItems does not count
\* it, and the second call leaves the store as the first left it.
C21_ArchiveIdempotent ==
  \A c \in db.app_collections : \A i \in ItemsIn(c) :
    i.app_id = c.app_id =>
      LET once == bulkArchive(db, c.app_id, c.name, <<i.id>>).db
          twice == bulkArchive(once, c.app_id, c.name, <<i.id>>).db
      IN /\ Hidden(once, c.app_id, i.id)
         /\ twice = once

\* an item was archived beside one that was not, and archiving it again
\* changes nothing
C21_Witness ==
  \E i \in Items : \E j \in Items : \E c \in db.app_collections :
    /\ i.is_archived /\ ~j.is_archived
    /\ c.id = i.collection_id /\ j.collection_id = c.id
    /\ bulkArchive(db, c.app_id, c.name, <<i.id>>).db = db

\* C22: getItem on an archived item answers 404 for every caller.
C22_ArchivedNotGettable ==
  \A c \in db.app_collections : \A i \in ItemsIn(c) : \A who \in AllCallers :
    i.is_archived =>
      getItem(db, c.app_id, c.name, i.id, who.userId, who.userRole).status = 404

\* C23: bulkDelete and bulkArchive answer the number of rows they deleted
\* or archived, the items of the tenant whose id is in the list.
C23_BulkCountsAffectedRows ==
  \A c \in db.app_collections : \A ids \in IdLists :
    LET affected == Cardinality(BulkQuery(db, c, c.app_id, ids)) IN
    /\ bulkDelete(db, c.app_id, c.name, ids).count = affected
    /\ bulkArchive(db, c.app_id, c.name, ids).count = affected

\* ======================================================= the auth service
\* The plan limits (100 for the free plan) are scaled down; every app of the
\* model is on the free plan (`profile?.plan || 'free'`).
FreeLimit == 2
END_USER_LIMITS == [free |-> FreeLimit]

HourMs == 3600000
MaxCalls == 3

\* emailSchema: .transform(s => s.toLowerCase().trim())
toLowerCase == ("a@x.io" :> "a@x.io") @@ ("A@x.io" :> "a@x.io") @@ ("b@x.io" :> "b@x.io")
emailSchema(email) == toLowerCase[email]

\* request bodies of POST /auth/signup; role is 'user' or 'editor'.  The
\* callers of one run either write one address in two letter cases or use
\* two addresses.
CaseBodies == {[email |-> "a@x.io"], [email |-> "A@x.io", role |-> "editor"]}
DistinctBodies == {[email |-> "a@x.io"], [email |-> "b@x.io", role |-> "editor"]}
SignupBodies == CaseBodies \cup DistinctBodies

\* validateBody(signupSchema): req.body = result.data
signupSchema(body) ==
  [email |-> emailSchema(body.email),
   role |-> IF "role" \in DOMAIN body THEN body.role ELSE "user"]

\* a call of the auth service and what it holds between its awaits; present
\* notes whether a row with the call's email was there when it looked
NewAuthCall(kind, appId) ==
  [kind |-> kind, pc |-> "start", appId |-> appId, email |-> Null, role |-> Null,
   assigned |-> Null, token |-> 0, expires |-> 0, userId |-> 0, status |-> 0,
   present |-> FALSE]

\* the call has returned or thrown: its locals are gone, what it answered
\* stays (the user's id, the reset token)
Returned(call, status) ==
  [NewAuthCall(call.kind, call.appId) EXCEPT
     !.pc = "done", !.status = status, !.userId = call.userId,
     !.token = call.token, !.expires = call.expires, !.present = call.present]

Failed(call, status) == Returned(call, status)

EndUsers(d, appId) == {u \in d.app_end_users : u.app_id = appId}

ByEmail(d, appId, email) == {u \in EndUsers(d, appId) : u.email = email}

\* signup, lines 29-38: the duplicate check; .single() gives a row only
\* when exactly one matches
signupExisting(d, call) ==
  LET existing == ByEmail(d, call.appId, call.email) IN
  IF Cardinality(existing) = 1
  THEN [idb |-> d, call |-> Failed([call EXCEPT !.present = TRUE], 409)]
  ELSE [idb |-> d, call |-> [call EXCEPT !.pc = "limit", !.present = existing # {}]]

\* lines 40-56: the limit check against the app's end_user_count
signupLimit(d, call) ==
  IF d.end_user_count[call.appId] >= END_USER_LIMITS["free"]
  THEN [idb |-> d, call |-> Failed(call, 403)]
  ELSE [idb |-> d, call |-> [call EXCEPT !.pc = "count"]]

\* lines 58-63: the first user becomes admin
signupCount_AlwaysRequested(d, call) ==
  [idb |-> d, call |-> [call EXCEPT !.pc = "insert", !.assigned = call.role]]

signupCount(d, call) ==
  LET count == Cardinality(EndUsers(d, call.appId)) IN
  [idb |-> d,
   call |-> [call EXCEPT !.pc = "insert",
                         !.assigned = IF count = 0 THEN "admin" ELSE call.role]]

\* lines 65-78: the insert; `if (error) throw error` carries no status
signupInsert(d, call) ==
  LET taken == ByEmail(d, call.appId, call.email) # {} IN
  IF d.emailUnique /\ taken
  THEN [idb |-> d, call |-> Failed([call EXCEPT !.present = TRUE], 500)]
  ELSE LET user == [id |-> d.nextUserId, app_id |-> call.appId, email |-> call.email,
                    role |-> call.assigned, password |-> "signup",
                    reset_token |-> 0, reset_token_expires |-> 0]
       IN [idb |-> [d EXCEPT !.app_end_users = @ \cup {user}, !.nextUserId = @ + 1],
           call |-> [call EXCEPT !.pc = "increment", !.userId = user.id,
                                 !.present = call.present \/ taken]]

\* lines 80-84: the increment's failure is swallowed by .catch(() => {})
signupIncrement(d, call, succeeds) ==
  [idb |-> IF succeeds THEN [d EXCEPT !.end_user_count[call.appId] = @ + 1] ELSE d,
   call |-> Returned(call, 201)]

\* a signup that no other call interleaves with
signup(d, appId, parsed, succeeds) ==
  LET call == [NewAuthCall("signup", appId) EXCEPT !.email = parsed.email,
                                                    !.role = parsed.role]
      s1 == signupExisting(d, call)
      s2 == signupLimit(s1.idb, s1.call)
      s3 == signupCount(s2.idb, s2.call)
      s4 == signupInsert(s3.idb, s3.call)
  IN IF s1.call.pc = "done" THEN s1
     ELSE IF s2.call.pc = "done" THEN s2
     ELSE IF s4.call.pc = "done" THEN s4
     ELSE signupIncrement(s4.idb, s4.call, succeeds)

\* requestPasswordReset, lines 141-152: the lookup, the token and its expiry
requestSelect(d, call, t) ==
  LET found == ByEmail(d, call.appId, call.email) IN
  IF Cardinality(found) # 1
  THEN [idb |-> d, call |-> Returned(call, 200)]
  ELSE [idb |-> [d EXCEPT !.nextToken = @ + 1],
        call |-> [call EXCEPT !.pc = "store", !.userId = TheRow(found).id,
                              !.token = d.nextToken, !.expires = t + HourMs]]

\* lines 154-164: the token is stored and returned
requestStore(d, call) ==
  [idb |-> [d EXCEPT !.app_end_users =
              {IF u.id = call.userId
               THEN [u EXCEPT !.reset_token = call.token,
                              !.reset_token_expires = call.expires]
               ELSE u : u \in @}],
   call |-> Returned(call, 200)]

\* resetPassword, lines 168-178: the lookup by token and the expiry check
resetLookup(d, call, t) ==
  LET found == {u \in EndUsers(d, call.appId) : u.reset_token = call.token} IN
  IF Cardinality(found) # 1 THEN [idb |-> d, call |-> Failed(call, 400)]
  ELSE LET user == TheRow(found) IN
       IF user.reset_token_expires # 0 /\ user.reset_token_expires < t
       THEN [idb |-> d, call |-> Failed(call, 400)]
       ELSE [idb |-> d, call |-> [call EXCEPT !.pc = "update", !.userId = user.id]]

\* the newest token that was generated for the identity, and when
IssuedTo(cs, userId) ==
  {cs[n].token : n \in {m \in DOMAIN cs : cs[m].kind = "request" /\ cs[m].token # 0
                                          /\ cs[m].userId = userId}}

Newest(tokens) == CHOOSE x \in tokens : \A y \in tokens : y <= x

\* lines 180-190: the password is set and the token cleared; changes notes
\* which token set the password, when, and which token was the newest then
resetUpdate(d, call, t, newest) ==
  [idb |-> [d EXCEPT !.app_end_users =
              {IF u.id = call.userId
               THEN [u EXCEPT !.password = "reset", !.reset_token = 0,
                              !.reset_token_expires = 0]
               ELSE u : u \in @},
            !.changes = Append(@, [token |-> call.token, at |-> t, newest |-> newest])],
   call |-> Returned(call, 200)]

\* ------------------------------------------------- the calls, interleaved
SignupWatch == {[family |-> "signup", bodies |-> bodies] : bodies \in {CaseBodies, DistinctBodies}}
ResetWatch == [family |-> "reset"]

\* tenant a2 has an identity with an email that tenant a1's callers use
SeededIdb(constrained) ==
  signup(EmptyIdb(constrained), "a2", signupSchema([email |-> "a@x.io"]), TRUE).idb

\* the reset calls start from a tenant a1 with one identity
InitIdentity ==
  /\ scope \in SignupWatch \cup {ResetWatch}
  /\ \E constrained \in BOOLEAN :
       idb = IF scope \in SignupWatch THEN SeededIdb(constrained)
             ELSE signup(SeededIdb(constrained), "a1",
                         signupSchema([email |-> "a@x.io"]), TRUE).idb
  /\ calls = <<>>
  /\ clock = 0
  /\ db = EmptyDb
  /\ IdleRace /\ IdleAuth /\ IdleLimiter /\ IdleValidate

Took(n, out) ==
  /\ idb' = out.idb
  /\ calls' = [calls EXCEPT ![n] = out.call]
  /\ UNCHANGED <<clock, storeVars, raceVars, authVars, rlVars, valVars>>

Started(out) ==
  /\ Len(calls) < MaxCalls
  /\ idb' = out.idb
  /\ calls' = Append(calls, out.call)
  /\ UNCHANGED <<clock, storeVars, raceVars, authVars, rlVars, valVars>>

At(n, kind, pc) == calls[n].kind = kind /\ calls[n].pc = pc

StartSignup ==
  \E body \in SignupBodies :
    /\ scope \in SignupWatch
    /\ body \in scope.bodies
    /\ LET parsed == signupSchema(body) IN
       Started(signupExisting(idb, [NewAuthCall("signup", "a1") EXCEPT
                                      !.email = parsed.email, !.role = parsed.role]))

SignupLimit ==
  \E n \in DOMAIN calls : At(n, "signup", "limit") /\ Took(n, signupLimit(idb, calls[n]))

SignupCount ==
  \E n \in DOMAIN calls : At(n, "signup", "count") /\ Took(n, signupCount(idb, calls[n]))

SignupInsert ==
  \E n \in DOMAIN calls : At(n, "signup", "insert") /\ Took(n, signupInsert(idb, calls[n]))

SignupIncrement ==
  \E n \in DOMAIN calls : \E succeeds \in BOOLEAN :
    At(n, "signup", "increment") /\ Took(n, signupIncrement(idb, calls[n], succeeds))

StartRequest ==
  \E email \in {"a@x.io", "b@x.io"} :
    /\ scope = ResetWatch
    /\ Started(requestSelect(idb, [NewAuthCall("request", "a1") EXCEPT
                                     !.email = emailSchema(email)], clock))

RequestStore ==
  \E n \in DOMAIN calls : At(n, "request", "store") /\ Took(n, requestStore(idb, calls[n]))

\* the tokens that requestPasswordReset has returned
ReturnedTokens == {calls[n].token : n \in {m \in DOMAIN calls : At(m, "request", "done")}} \ {0}

StartReset ==
  \E token \in ReturnedTokens :
    /\ scope = ResetWatch
    /\ Started(resetLookup(idb, [NewAuthCall("reset", "a1") EXCEPT !.token = token], clock))

ResetUpdate ==
  \E n \in DOMAIN calls :
    /\ At(n, "reset", "update")
    /\ Took(n, resetUpdate(idb, calls[n], clock, Newest(IssuedTo(calls, calls[n].userId))))

ClockSteps == {HourMs \div 2, HourMs}
ClockEnd == 2 * HourMs

TickClock ==
  \E step \in ClockSteps :
    /\ scope = ResetWatch
    /\ clock + step <= ClockEnd
    /\ clock' = clock + step
    /\ UNCHANGED <<idb, calls, storeVars, raceVars, authVars, rlVars, valVars>>

NextIdentity ==
  \/ StartSignup \/ SignupLimit \/ SignupCount \/ SignupInsert \/ SignupIncrement
  \/ StartRequest \/ RequestStore \/ StartReset \/ ResetUpdate \/ TickClock

SpecIdentity == InitIdentity /\ [][NextIdentity]_vars

\* ----------------------------------------------------------------- signup
Tenant == "a1"

FinishedSignups(status) ==
  {n \in DOMAIN calls : At(n, "signup", "done") /\ calls[n].status = status}

UserOf(d, id) == CHOOSE u \in d.app_end_users : u.id = id

\* C24: a successful signup that runs alone in a tenant without identity
\* stores role admin; in a tenant with an identity it stores the requested
\* role ('user' when the body names none), which is never admin.
C24_FirstSignupIsAdmin ==
  \A body \in SignupBodies :
    LET parsed == signupSchema(body)
        out == signup(idb, Tenant, parsed, TRUE)
    IN out.call.status = 201 =>
         LET made == UserOf(out.idb, out.call.userId) IN
         IF EndUsers(idb, Tenant) = {}
         THEN made.role = "admin"
         ELSE /\ made.role = (IF "role" \in DOMAIN body THEN body.role ELSE "user")
              /\ made.role # "admin"

\* two signups succeeded one after the other: the first identity is admin,
\* the second an editor as it asked
C24_Witness ==
  \E n \in FinishedSignups(201) : \E m \in FinishedSignups(201) :
    /\ calls[n].userId < calls[m].userId
    /\ UserOf(idb, calls[n].userId).role = "admin"
    /\ UserOf(idb, calls[m].userId).role = "editor"

\* C25: no two identities of a tenant have the same email, letter case
\* aside, and a signup that met its email in the tenant ends with 409 and
\* has created no identity.
C25_EmailUnique ==
  /\ \A u \in idb.app_end_users : \A v \in idb.app_end_users :
       (u.app_id = v.app_id /\ toLowerCase[u.email] = toLowerCase[v.email]) => u = v
  /\ \A n \in DOMAIN calls :
       (At(n, "signup", "done") /\ calls[n].present) =>
         (calls[n].status = 409 /\ calls[n].userId = 0)

\* C26: a tenant never has more identities than its plan allows, and a
\* signup in a tenant at its limit fails and creates no identity.
C26_WithinPlanLimit ==
  /\ Cardinality(EndUsers(idb, Tenant)) <= END_USER_LIMITS["free"]
  /\ Cardinality(EndUsers(idb, Tenant)) >= END_USER_LIMITS["free"] =>
       \A body \in SignupBodies :
         LET out == signup(idb, Tenant, signupSchema(body), TRUE) IN
         out.call.status # 201 /\ out.idb.app_end_users = idb.app_end_users

\* --------------------------------------------------------- password reset
\* when the token was generated: its expiry is one hour later
IssuedAt(token) ==
  LET n == CHOOSE m \in DOMAIN calls : calls[m].kind = "request" /\ calls[m].token = token
  IN calls[n].expires - HourMs

\* C27: a reset token sets the password at most once, never after a newer
\* token was issued to the identity, and only less than one hour after it
\* was issued.
C27_ResetTokenOnce ==
  LET changes == idb.changes IN
  /\ \A i \in DOMAIN changes : \A j \in DOMAIN changes :
       changes[i].token = changes[j].token => i = j
  /\ \A i \in DOMAIN changes : changes[i].token = changes[i].newest
  /\ \A i \in DOMAIN changes : changes[i].at - IssuedAt(changes[i].token) < HourMs

\* ------------------------------------------------------- the role check
\* the ranks of the four roles
Rank == [admin |-> 4, editor |-> 3, user |-> 2, guest |-> 1]

\* the middleware called next()
LetThrough(r, out) == out.status = 0 /\ out.at = r.at + 1

\* C28: for every caller role r and every minimum role m of the four,
\* requireRole(m) lets the request through exactly when rank(r) >= rank(m);
\* a request without authenticated identity is answered AUTH_REQUIRED, a
\* request whose role is none of the four FORBIDDEN.
C28_RoleHierarchy ==
  Stage(req) = "requireRole" =>
    \A m \in Roles :
      LET out == requireRole(req, m)
          bare == requireRole([req EXCEPT !.authSet = FALSE, !.auth = NoAuth], m)
      IN /\ bare.status = 401 /\ bare.code = "AUTH_REQUIRED"
         /\ IF req.auth.role \in Roles
            THEN LetThrough(req, out) <=> Rank[req.auth.role] >= Rank[m]
            ELSE out.status = 403 /\ out.code = "FORBIDDEN"

\* ----------------------------------------------------------- filter keys
\* the modelled keys that match /^[A-Za-z_][A-Za-z0-9_]*$/
SafeIdentifiers == {"title", "status", "_limit", "_order"}

\* C29: every filter key that reaches the query of listItems is a safe
\* identifier; a key that is none is rejected or dropped and never put
\* into a `data->>key` expression.
C29_FilterKeysSafe ==
  (req.executed /\ req.route = "listItems") =>
    req.ran.columns \subseteq {"data->>" \o key : key \in SafeIdentifiers}

\* ------------------------------------------------------------ pagination
\* every order of the rows
RECURSIVE Arrangements(_)
Arrangements(rows) ==
  IF rows = {} THEN {<<>>}
  ELSE UNION {{<<r>> \o rest : rest \in Arrangements(rows \ {r})} : r \in rows}

\* listItems, lines 116-121: the query is ordered by one column.  created_at
\* follows the insertions; sort_order is written by no operation, so every
\* row holds the column's default and the storage engine is free in the
\* order it returns the rows.  Any other orderBy means created_at.
Orderings(rows, orderBy, order) ==
  IF orderBy = "sort_order" THEN Arrangements(rows)
  ELSE IF order = "asc" THEN {Ascending(rows)}
  ELSE {Reverse(Ascending(rows))}

RowIds(s) == [n \in DOMAIN s |-> s[n].id]

\* the answers listItems can give when the query is ordered by orderBy;
\* page lists the ids of the rows in the order of the answer
listItemsBy(d, appId, collectionName, opts, orderBy) ==
  LET g == getOrCreateCollection(d, appId, collectionName) IN
  IF g.error
  THEN {[db |-> g.db, status |-> 500, page |-> <<>>, total |-> 0, hasMore |-> FALSE]}
  ELSE LET matched == ListQuery(g.db, TheRow(g.rows), appId, opts) IN
       {[db |-> g.db, status |-> 200,
         page |-> RowIds(Range(sorted, opts.offset, opts.limit)),
         total |-> Cardinality(matched),
         hasMore |-> (opts.offset + opts.limit) < Cardinality(matched)]
          : sorted \in Orderings(matched, orderBy, opts.order)}

\* Calls about paging: one caller reads "notes" of tenant a1 page by page
\* while other callers create and delete items of the collection.
ScanScope ==
  [targets |-> {Target("a1", "notes")},
   configs |-> {},
   creates |-> {[title |-> "X"]},
   updates |-> {},
   callers |-> {Anonymous},
   archive |-> FALSE]

PageLimit == 1

\* the ids of the items "notes" of tenant a1 holds
Held(d) == {i.id : i \in {j \in d.app_collection_items : j.app_id = "a1" /\ ~j.is_archived}}

\* a scan: the options of its next page, the ids it has seen, and of the
\* items that were there when it began those that every page read found
\* in the table
NewScan(d, orderBy, order) ==
  [pc |-> "page", orderBy |-> orderBy,
   opts |-> [FullPage(Anonymous) EXCEPT !.limit = PageLimit, !.order = order],
   seen |-> <<>>, steady |-> Held(d)]

InitScan ==
  /\ db = EmptyDb
  /\ scope = ScanScope
  /\ IdleRace /\ IdleAuth /\ IdleLimiter /\ IdleValidate /\ IdleIdentity

StartScan ==
  \E orderBy \in {"created_at", "sort_order"}, order \in {"asc", "desc"} :
    /\ procs = <<>>
    /\ procs' = <<NewScan(db, orderBy, order)>>
    /\ UNCHANGED <<idVars, valVars, storeVars, authVars, rlVars>>

\* GET /data/notes?_limit=..&_offset=..: the caller goes on while hasMore
ReadPage ==
  /\ procs # <<>>
  /\ procs[1].pc = "page"
  /\ \E out \in listItemsBy(db, "a1", "notes", procs[1].opts, procs[1].orderBy) :
       /\ db' = out.db
       /\ procs' = <<[procs[1] EXCEPT
                        !.pc = IF out.hasMore THEN "page" ELSE "done",
                        !.opts.offset = @ + PageLimit,
                        !.seen = @ \o out.page,
                        !.steady = @ \cap Held(db)]>>
  /\ UNCHANGED <<idVars, valVars, scope, authVars, rlVars>>

NextScan ==
  \/ StartScan
  \/ ReadPage
  \/ CreateItem
  \/ DeleteItem

SpecScan == InitScan /\ [][NextScan]_vars

Times(id, seen) == Cardinality({n \in DOMAIN seen : seen[n] = id})

\* C30: a caller that has read the pages at offset 0, limit, 2*limit, ...
\* with one orderBy and order has seen every item that was in the
\* collection throughout the scan exactly once and no item twice, also when
\* items tie on the orderBy value and when other callers create or delete
\* items between two page reads.
C30_PaginationStable ==
  (procs # <<>> /\ procs[1].pc = "done") =>
    /\ \A id \in procs[1].steady \cap Held(db) : Times(id, procs[1].seen) = 1
    /\ \A id \in ItemIds : Times(id, procs[1].seen) <= 1

\* ------------------------------------------------------- error answers
\* the code each route's catch block gives apiError for a thrown status
\* (e.status; 500 stands for an error that carries none)
RouteCode(route, status) ==
  CASE route = "createItem" -> "INTERNAL_ERROR"
    [] route = "deleteItem" -> "INTERNAL_ERROR"
    [] route = "updateItem" -> IF status = 404 THEN "NOT_FOUND" ELSE "INTERNAL_ERROR"
    [] route = "getItem" -> IF status = 404 THEN "NOT_FOUND" ELSE "INTERNAL_ERROR"
    [] route = "signup" -> IF status = 409 THEN "CONFLICT" ELSE "INTERNAL_ERROR"
    [] route = "signin" -> IF status = 401 THEN "AUTH_INVALID" ELSE "INTERNAL_ERROR"

\* res.json(result) or apiError(res, e.status || 500, code, e.message)
Respond(route, out) ==
  IF out.status \in {200, 201} THEN [status |-> out.status, code |-> Null]
  ELSE [status |-> out.status, code |-> RouteCode(route, out.status)]

\* the taxonomy kind of a service failure
KindOf(status) ==
  CASE status = 400 -> "VALIDATION_ERROR" [] status = 403 -> "FORBIDDEN"
    [] status = 404 -> "NOT_FOUND" [] status = 409 -> "CONFLICT"
    [] OTHER -> "INTERNAL_ERROR"

Surfaced(route, out) ==
  out.status \in {400, 403, 404, 409} => Respond(route, out).code = KindOf(out.status)

\* C31: every route answers a service failure with the failure's own kind:
\* a schema violation or dangling relation as VALIDATION_ERROR, an
\* adminWriteOnly denial as FORBIDDEN, a missing item as NOT_FOUND, a
\* duplicate email as CONFLICT, and none of them as INTERNAL_ERROR.
C31_FailuresKeepTheirKind ==
  /\ \A c \in db.app_collections : \A a \in scope.callers :
       /\ \A data \in CreatePayloads :
            Surfaced("createItem",
                     createItem(db, c.app_id, c.name, data, a.userId, a.userRole))
       /\ \A id \in ItemIds :
            /\ \A data \in UpdatePayloads :
                 Surfaced("updateItem",
                          updateItem(db, c.app_id, c.name, id, data, a.userId, a.userRole))
            /\ Surfaced("getItem", getItem(db, c.app_id, c.name, id, a.userId, a.userRole))
  /\ Respond("signup", [status |-> 409]).code = "CONFLICT"

\* ---------------------------------------------------- eviction and admission
\* the limiter and its eviction timer alone, with nothing kept beside them
EvictionWatch == [watch |-> "eviction"]

InitEviction ==
  /\ buckets = <<>>
  /\ now = 0
  /\ ticks = 0
  /\ sweepAt = 0
  /\ rlLast = NoAnswer
  /\ epoch \in {[key |-> k, open |-> FALSE, first |-> 0, count |-> 0,
                   classes |-> {}] : k \in WatchedKeys}
  /\ admitted = <<>>
  /\ db = EmptyDb
  /\ scope = EvictionWatch
  /\ IdleRace /\ IdleAuth /\ IdleValidate /\ IdleIdentity

SpecEviction == InitEviction /\ [][NextLimiter]_vars

\* the times a next request can come at: now, or one step later
LaterTimes == {now} \cup {now + d : d \in TickSteps}

\* what a request is answered and what it leaves in its bucket
Outcome(bs, t, key, config) ==
  LET out == admit(bs, t, key, config) IN
  [allowed |-> out.allowed, remaining |-> out.remaining,
   retryAfter |-> out.retryAfter, bucket |-> out.buckets[key]]

\* a limiter whose window is as long as the eviction's idle time
LongestWindow == [maxRequests |-> ReadMax, windowMs |-> IdleMs]

\* C32: eviction has no effect on admission.  Whatever the limiter holds
\* and whenever the eviction runs, the next request of a key is answered
\* the same (admitted or rejected, remaining tokens, retry hint) and leaves
\* the same bucket as without the eviction, so every later request is
\* answered the same too.
C32_EvictionIsInvisible ==
  \A r \in LimitedRequests : \A t \in LaterTimes :
    \A config \in {Presets[r.class], LongestWindow} :
      Outcome(sweep(buckets, now), t, RequestKey(r), config)
        = Outcome(buckets, t, RequestKey(r), config)

\* the eviction purges an exhausted bucket, and a bucket with tokens left
C32_Witness ==
  \E k \in DOMAIN buckets :
    /\ ~HasBucket(sweep(buckets, now), k)
    /\ buckets[k].tokens = 0

\* ------------------------------------------------------- schema updates
\* the settings argument: left out, or one of the settings objects
SettingsArguments == {{}} \cup {{s} : s \in SettingsChoices}

RowOf(d, collection) == CHOOSE c \in d.app_collections : c.id = collection.id

Admin == Caller("u1", "admin")

\* C33: updateCollectionSchema replaces the schema, replaces the settings
\* only when settings are given, and changes no item and no other
\* collection; an item that does not meet the new schema stays readable,
\* and its next updateItem is judged by the new schema.
C33_SchemaUpdateKeepsItems ==
  \A c \in db.app_collections :
    \A schema \in SchemaChoices \cup {<<StatusField>>} : \A settings \in SettingsArguments :
      LET out == updateCollectionSchema(db, c.app_id, c.name, schema, settings)
          after == RowOf(out.db, c)
      IN /\ out.status = 200
         /\ after.schema = schema
         /\ after.settings = (IF settings = {} THEN c.settings ELSE TheRow(settings))
         /\ out.db.app_collections \ {after} = db.app_collections \ {c}
         /\ out.db.app_collection_items = db.app_collection_items
         /\ \A i \in ItemsIn(c) :
              /\ ~i.is_archived =>
                   getItem(out.db, c.app_id, c.name, i.id, Admin.userId, Admin.userRole).item
                     = ItemView(i)
              /\ \A data \in UpdatePayloads :
                   LET merged == Spread(i.data, data)
                       rewrite == updateItem(out.db, c.app_id, c.name, i.id, data,
                                          Admin.userId, Admin.userRole)
                   IN IF validateDataAgainstSchema(merged, schema) # {}
                      THEN rewrite.status = 400 /\ rewrite.db = out.db
                      ELSE rewrite.status = 200

\* a collection took a schema that an item it holds does not meet, and the
\* item is still read
C33_Witness ==
  \E c \in db.app_collections : \E i \in ItemsIn(c) :
    /\ c.schema # <<>>
    /\ validateDataAgainstSchema(i.data, c.schema) # {}
    /\ getItem(db, c.app_id, c.name, i.id, Admin.userId, Admin.userRole).status = 200

\* ------------------------------------------------- referents of relations
\* update payloads: those of the other checks and one that points the ref
\* field at an id that no item has
RelationUpdates == UpdatePayloads \cup {[ref |-> "9"]}

\* C34: every write that stores a value in a relation field checks the
\* referent: when createItem or updateItem succeeds, each non-empty value
\* of its payload in a relation field of the schema is, at that time, the
\* id of an item of the relation's target collection.
C34_WritesCheckReferents ==
  \A c \in db.app_collections : \A who \in scope.callers :
    /\ \A data \in CreatePayloads :
         createItem(db, c.app_id, c.name, data, who.userId, who.userRole).status = 201
           => Dangling(c, data) = {}
    /\ \A i \in ItemsIn(c) : \A data \in RelationUpdates :
         updateItem(db, c.app_id, c.name, i.id, data, who.userId, who.userRole).status = 200
           => Dangling(c, data) = {}

\* ------------------------------------------- concurrent updateItem calls
Updaters == {1, 2}

\* partial payloads of PATCH /data/notes/1
MergePayloads == {[status |-> "done"], [title |-> "Y"], [tag |-> "t"]}

\* an updateItem call on item 1 of "notes" and what it holds between its
\* awaits
NewUpdate(data) ==
  [pc |-> "select", appId |-> "a1", name |-> "notes", itemId |-> 1, data |-> data,
   collection |-> {}, merged |-> <<>>, status |-> 0]

\* tenant a1 holds one item in "notes"
StoredItem == createItem(EmptyDb, "a1", "notes", [title |-> "X"], Null, Null).db

InitMerge ==
  /\ db = StoredItem
  /\ scope = PolicyScope
  /\ procs \in [Updaters -> {NewUpdate(data) : data \in MergePayloads}]
  /\ IdleAuth /\ IdleLimiter /\ IdleValidate /\ IdleIdentity

\* updateItem, lines 234-240: the collection and the adminWriteOnly check
UpdateSelect(p) ==
  LET call == procs[p]
      g == getOrCreateCollection(db, call.appId, call.name)
  IN /\ call.pc = "select"
     /\ db' = g.db
     /\ procs' = [procs EXCEPT ![p] =
          IF g.error THEN [call EXCEPT !.pc = "done", !.status = 500]
          ELSE IF AdminWriteDenied(Settings(TheRow(g.rows)), Null)
          THEN [call EXCEPT !.pc = "done", !.status = 403]
          ELSE [call EXCEPT !.pc = "fetch", !.collection = g.rows]]
     /\ UNCHANGED <<idVars, valVars, scope, authVars, rlVars>>

\* lines 242-266: the existing row is read, the payload merged into its
\* data and the result validated
UpdateFetch(p) ==
  LET call == procs[p]
      collection == TheRow(call.collection)
      found == UpdateExistingQuery(db, collection, call.appId, call.itemId, Null, Null)
      merged == Spread(TheRow(found).data, call.data)
  IN /\ call.pc = "fetch"
     /\ procs' = [procs EXCEPT ![p] =
          IF Cardinality(found) # 1 THEN [call EXCEPT !.pc = "done", !.status = 404]
          ELSE IF validateDataAgainstSchema(ValidatedOnUpdate(merged, call.data),
                                            collection.schema) # {}
          THEN [call EXCEPT !.pc = "done", !.status = 400]
          ELSE [call EXCEPT !.pc = "persist", !.merged = merged]]
     /\ UNCHANGED <<idVars, valVars, storeVars, authVars, rlVars>>

\* lines 268-275: update({ data: merged }) of the row; .single() on no row
\* is an error without status
UpdatePersist(p) ==
  LET call == procs[p]
      hit == {i \in db.app_collection_items : i.id = call.itemId /\ i.app_id = call.appId}
  IN /\ call.pc = "persist"
     /\ db' = [db EXCEPT !.app_collection_items =
                 {IF i \in hit THEN [i EXCEPT !.data = call.merged] ELSE i : i \in @}]
     /\ procs' = [procs EXCEPT ![p] =
          [call EXCEPT !.pc = "done", !.status = IF hit = {} THEN 500 ELSE 200]]
     /\ UNCHANGED <<idVars, valVars, scope, authVars, rlVars>>

NextMerge ==
  \E p \in Updaters : UpdateSelect(p) \/ UpdateFetch(p) \/ UpdatePersist(p)

SpecMerge == InitMerge /\ [][NextMerge]_vars

\* C35: when two concurrent updateItem calls on one item with payloads of
\* disjoint keys have returned, the stored data holds the new value of
\* every key of both payloads.
C35_NoLostUpdate ==
  (\A p \in Updaters : procs[p].pc = "done" /\ procs[p].status = 200) =>
    \A p \in Updaters : \A q \in Updaters :
      (p # q /\ DOMAIN procs[p].data \cap DOMAIN procs[q].data = {}) =>
        \A i \in Items :
          i.id = procs[p].itemId =>
            \A k \in DOMAIN procs[p].data : Get(i.data, k) = procs[p].data[k]

\* ------------------------------------------------ concurrent first signups
Admins(d, appId) == {u \in EndUsers(d, appId) : u.role = "admin"}

\* C36: of the identities that concurrent signup calls create in a tenant
\* that had none, exactly one is admin; every other one has the role its
\* request asked for, which is not admin.
C36_OneAdminPerTenant ==
  (scope \in SignupWatch /\ EndUsers(idb, Tenant) # {}) =>
    /\ Cardinality(Admins(idb, Tenant)) = 1
    /\ \A u \in EndUsers(idb, Tenant) \ Admins(idb, Tenant) :
         \E body \in scope.bodies :
           signupSchema(body).email = u.email /\ signupSchema(body).role = u.role

\* --------------------------------------------- what a reset request shows
\* a requestPasswordReset that no other call interleaves with
requestPasswordReset(d, appId, email, t) ==
  LET s1 == requestSelect(d, [NewAuthCall("request", appId) EXCEPT !.email = email], t)
  IN IF s1.call.pc = "done" THEN s1 ELSE requestStore(s1.idb, s1.call)

\* POST /auth/reset-request: res.json(result), result being
\* { success: true } or { success: true, token }
ResetReply(call) ==
  IF call.token = 0 THEN [success |-> TRUE]
  ELSE [success |-> TRUE, token |-> call.token]

\* the store without the identity that has the email in the tenant
Unregistered(d, appId, email) ==
  [d EXCEPT !.app_end_users = {u \in @ : ~(u.app_id = appId /\ u.email = email)}]

SameReply(r1, r2) ==
  DOMAIN r1 = DOMAIN r2 /\ \A k \in DOMAIN r1 : r1[k] = r2[k]

\* C37: for two stores that differ only in whether the email has an
\* identity in the tenant, requestPasswordReset returns the same value.
C37_ResetRequestHidesRegistration ==
  \A email \in {"a@x.io", "b@x.io"} :
    SameReply(ResetReply(requestPasswordReset(idb, Tenant, email, clock).call),
              ResetReply(requestPasswordReset(Unregistered(idb, Tenant, email),
                                              Tenant, email, clock).call))

\* --------------------------------------------------------- the retry hint
\* the times at or after t + r seconds that a retry comes at
RetryTimes(t, r) == {t + r * MsPerSecond + d : d \in {0} \cup TickSteps}

\* the times from t on that lie before t + r seconds
WaitTimes(t, r) == {u \in {t} \cup {t + d : d \in TickSteps} : u < t + r * MsPerSecond}

\* C38: when the limiter rejects a request at time t with a retry hint of r
\* seconds, a request with the key at or after t + r seconds is admitted,
\* through either limiter and whether or not the eviction has run, when no
\* request with the key was admitted in between; the requests rejected in
\* between leave the bucket as it was.
C38_RetryHintSuffices ==
  \A r \in LimitedRequests :
    LET key == RequestKey(r)
        first == admit(buckets, now, key, Presets[r.class])
    IN ~first.allowed =>
         /\ first.buckets = buckets
         /\ \A u \in WaitTimes(now, first.retryAfter) : \A class \in RouteClasses :
              LET early == admit(buckets, u, key, Presets[class]) IN
              ~early.allowed => early.buckets = buckets
         /\ \A t \in RetryTimes(now, first.retryAfter) : \A class \in RouteClasses :
              /\ admit(buckets, t, key, Presets[class]).allowed
              /\ \A at \in {now, t} :
                   admit(sweep(buckets, at), t, key, Presets[class]).allowed

\* a request was rejected half a second into the window, with a hint that
\* rounds a started second up
C38_Witness ==
  /\ rlLast.status = 429
  /\ rlLast.retryAfter * MsPerSecond > WindowMs - 500
  /\ \E k \in DOMAIN buckets : now - buckets[k].lastRefill = 500
  /\ \E r \in LimitedRequests :
       LET out == admit(buckets, now, RequestKey(r), Presets[r.class]) IN
       ~out.allowed /\ out.retryAfter = rlLast.retryAfter

\* ------------------------------------------------------- the item's owner
\* the column end_user_id of every row
Owners(d) == {<<i.id, i.end_user_id>> : i \in d.app_collection_items}

\* C39: createItem stores the caller's identity (null for a caller without
\* one) as the item's owner, and updateItem, bulkArchive and
\* updateCollectionSchema leave every item's owner as it was, whoever
\* calls.
C39_OwnerFixedAtCreation ==
  \A c \in db.app_collections :
    /\ \A who \in AllCallers :
         /\ \A data \in CreatePayloads :
              LET out == createItem(db, c.app_id, c.name, data, who.userId, who.userRole)
              IN out.status = 201 =>
                   /\ \A row \in out.rows : row.end_user_id = who.userId
                   /\ out.rows \subseteq out.db.app_collection_items
                   /\ Owners(out.db) = Owners(db) \cup {<<row.id, who.userId>> : row \in out.rows}
         /\ \A id \in ItemIds : \A data \in UpdatePayloads :
              Owners(updateItem(db, c.app_id, c.name, id, data, who.userId, who.userRole).db)
                = Owners(db)
    /\ \A ids \in IdLists : Owners(bulkArchive(db, c.app_id, c.name, ids).db) = Owners(db)
    /\ \A schema \in SchemaChoices : \A settings \in SettingsArguments :
         Owners(updateCollectionSchema(db, c.app_id, c.name, schema, settings).db)
           = Owners(db)

\* an item that an identity created has been updated by a call, and is
\* still that identity's
C39_Witness ==
  \E i \in Items : \E who \in AllCallers :
    /\ i.end_user_id = who.userId /\ who.userId # Null
    /\ "status" \in DOMAIN i.data /\ "title" \in DOMAIN i.data
    /\ \E c \in db.app_collections :
         /\ c.id = i.collection_id
         /\ createItem(db, c.app_id, c.name, [title |-> "X"], who.userId, who.userRole).status = 201

====
